---- MODULE Spec2Model ----
(***************************************************************************)
(* The vocabulary store of push-up (src/src/store/useStore.ts), its remote *)
(* mirror (SupabaseService) and the quiz / writing sessions driven by the  *)
(* page components, as state machines.                                     *)
(*                                                                         *)
(* Words are JavaScript strings, modelled as sequences of character codes  *)
(* so that toLowerCase is computed and not assumed.  The record map        *)
(* vocabDetails is a plain JavaScript object: a property read finds the    *)
(* object's own entries and, for an absent key that names a member of      *)
(* Object.prototype (such as "constructor"), the inherited member.         *)
(***************************************************************************)
EXTENDS Integers, Sequences, FiniteSets, TLC

\* ------------------------------------------------------------------ bounds
\* operations the user starts during one behaviour
MaxOps == 3
\* operations of one behaviour of the store without remote credentials
MaxLocalOps == 4
\* operations of one behaviour of the practice sessions
MaxSessionOps == 6
\* remote calls in flight at once
MaxCalls == 2
\* answers recorded for one word during one behaviour of practice
MaxAttempts == 40
\* times the practised word is saved during such a behaviour
MaxSaves == 1

\* user actions in one behaviour of content generation
MaxGenerationOps == 5

\* ----------------------------------------------------------------- strings
\* String.prototype.toLowerCase on one code unit (ASCII letters).
LowerChar(c) == IF c \in 65..90 THEN c + 32 ELSE c

\* String.prototype.toLowerCase.
ToLowerCase(w) == [i \in 1..Len(w) |-> LowerChar(w[i])]

\* "a", "A" and "constructor"
WordLowerA == <<97>>
WordUpperA == <<65>>
WordConstructor == <<99, 111, 110, 115, 116, 114, 117, 99, 116, 111, 114>>

\* "b"
WordB == <<98>>

\* the words a user types in one behaviour
Words == {WordLowerA, WordUpperA, WordConstructor}

\* Names of the members every plain object inherits from Object.prototype
\* (of these only "constructor" is in Words).
ObjectPrototype == {WordConstructor}

\* undefined, for a string-valued, an id-valued and a number-valued property
NoWord == <<>>
NoId == 0
Undef == -1

\* ----------------------------------------------------------------- records
\* The value read from a property that is absent (undefined) or inherited
\* (the function Object): every property of it reads undefined.
Blank ==
    [id |-> NoId, word |-> NoWord, definition |-> "undefined",
     example |-> "undefined", ipa |-> "undefined", mastery |-> Undef,
     attempts |-> Undef, correct |-> Undef, lastPracticed |-> Undef]

\* obj[key] used as a condition: an own entry or an inherited member.
Truthy(obj, key) == key \in DOMAIN obj \/ key \in ObjectPrototype

\* obj[key] read for its properties.
Get(obj, key) == IF key \in DOMAIN obj THEN obj[key] ELSE Blank

\* obj[key] = val on a copy of obj.
Put(obj, key, val) ==
    [k \in DOMAIN obj \cup {key} |-> IF k = key THEN val ELSE obj[k]]

\* a deletion that empties the object
DeleteEvery(obj, key) == <<>>

\* a delete that has not been applied: the object as it was
DeleteNothing(obj, key) == obj

\* delete obj[key] on a copy of obj.
Delete(obj, key) == [k \in DOMAIN obj \ {key} |-> obj[k]]

\* x || 0 for a number or undefined.
OrZero(x) == IF x = Undef THEN 0 ELSE x

\* --------------------------------------------------- Number arithmetic
\* JavaScript Numbers are IEEE 754 binary64 values.  A positive value is
\* held here as an integer, written as a sequence of limbs (digits in base
\* 2^Limb, most significant first), and the count of its low bits that lie
\* behind the binary point; every intermediate result is rounded to 53
\* significant bits, ties to even.
Precision == 53

Limb == 18

Base == 2 ^ Limb

Front(limbs) == SubSeq(limbs, 1, Len(limbs) - 1)

Last(limbs) == limbs[Len(limbs)]

\* the number of bits of one limb, 0 for 0
Width(x) == CHOOSE b \in 0..Limb : x < 2 ^ b /\ (b > 0 => x >= 2 ^ (b - 1))

\* the number of bits of a limb sequence whose first limb is not 0
BitLength(limbs) == Limb * (Len(limbs) - 1) + Width(limbs[1])

\* the integer a short limb sequence reads as
RECURSIVE Value(_)
Value(limbs) ==
    IF Len(limbs) = 0 THEN 0 ELSE Value(Front(limbs)) * Base + Last(limbs)

\* limbs + a, for a <= Base
RECURSIVE Plus(_, _)
Plus(limbs, a) ==
    IF Len(limbs) = 0 THEN IF a = 0 THEN <<>> ELSE <<a>>
    ELSE Plus(Front(limbs), (Last(limbs) + a) \div Base)
         \o <<(Last(limbs) + a) % Base>>

\* limbs * m + carry, for m < 2^12 and carry < m
RECURSIVE Times(_, _, _)
Times(limbs, m, carry) ==
    IF Len(limbs) = 0 THEN IF carry = 0 THEN <<>> ELSE <<carry>>
    ELSE Times(Front(limbs), m, (Last(limbs) * m + carry) \div Base)
         \o <<(Last(limbs) * m + carry) % Base>>

\* An integer of at most Precision + Limb bits rounded to Precision
\* significant bits, ties to even; `inexact` says that the integer stands
\* for a value with nonzero digits behind it.
RoundToPrecision(limbs, inexact) ==
    LET drop == BitLength(limbs) - Precision
        low == Last(limbs)
        kept == low \div 2 ^ drop
        guard == (low \div 2 ^ (drop - 1)) % 2
        sticky == inexact \/ low % 2 ^ (drop - 1) # 0
        up == guard = 1 /\ (sticky \/ kept % 2 = 1)
    IN IF drop <= 0 THEN limbs
       ELSE Plus(Front(limbs) \o <<kept * 2 ^ drop>>, IF up THEN 2 ^ drop ELSE 0)

\* the least s with correct * 2^s >= attempts: the first 1 of the quotient
\* stands s places behind the binary point
Lead(correct, attempts) ==
    CHOOSE s \in 0..(Limb - 5) :
        /\ correct * 2 ^ s >= attempts
        /\ (s > 0 => correct * 2 ^ (s - 1) < attempts)

\* correct / attempts, for 0 < correct <= attempts < 2^13: the first
\* Precision + 1 = 3 * Limb bits of the quotient by long division, a limb at
\* a time, rounded.
Divide(correct, attempts) ==
    LET s == Lead(correct, attempts)
        n1 == correct * 2 ^ s * 2 ^ (Limb - 1)
        n2 == (n1 % attempts) * Base
        n3 == (n2 % attempts) * Base
        q == <<n1 \div attempts, n2 \div attempts, n3 \div attempts>>
    IN [limbs |-> RoundToPrecision(q, n3 % attempts # 0),
        behind |-> s + Precision]

\* x * 100
TimesHundred(x) ==
    [limbs |-> RoundToPrecision(Times(x.limbs, 100, 0), FALSE),
     behind |-> x.behind]

\* the whole part of x * 2, for x < 2^29
Halves(x) ==
    LET shift == x.behind - 1
        whole == SubSeq(x.limbs, 1, Len(x.limbs) - shift \div Limb)
    IN Value(whole) \div 2 ^ (shift % Limb)

\* Math.round(x): the nearest integer, a tie going up
Round(x) == (Halves(x) + 1) \div 2

\* Math.round((correct / attempts) * 100)
MathRound(correct, attempts) ==
    IF correct = 0 THEN 0 ELSE Round(TimesHundred(Divide(correct, attempts)))

\* ------------------------------------------------ Number arithmetic, general
\* A Number other than those of Math.round above is held in normal form:
\* 0, or an integer of exactly Precision bits (three limbs) and the count of
\* its bits that lie behind the binary point.
Zero == [limbs |-> <<>>, behind |-> 0]

StripZeros(limbs) ==
    IF \A i \in 1..Len(limbs) : limbs[i] = 0 THEN <<>>
    ELSE SubSeq(limbs,
                CHOOSE i \in 1..Len(limbs) :
                    limbs[i] # 0 /\ \A j \in 1..(i - 1) : limbs[j] = 0,
                Len(limbs))

\* a + b + carry
RECURSIVE Sum(_, _, _)
Sum(a, b, carry) ==
    IF a = <<>> /\ b = <<>> THEN IF carry = 0 THEN <<>> ELSE <<carry>>
    ELSE LET t == (IF a = <<>> THEN 0 ELSE Last(a))
                  + (IF b = <<>> THEN 0 ELSE Last(b)) + carry
         IN Sum(IF a = <<>> THEN <<>> ELSE Front(a),
                IF b = <<>> THEN <<>> ELSE Front(b), t \div Base)
            \o <<t % Base>>

\* limbs * 2^k
ShiftLeft(limbs, k) ==
    LET r == k % Limb
        half == r \div 2
    IN Times(Times(limbs, 2 ^ half, 0), 2 ^ (r - half), 0)
       \o [i \in 1..(k \div Limb) |-> 0]

RECURSIVE Shifted(_, _, _)
Shifted(limbs, r, carry) ==
    IF limbs = <<>> THEN <<>>
    ELSE <<carry * 2 ^ (Limb - r) + Head(limbs) \div 2 ^ r>>
         \o Shifted(Tail(limbs), r, Head(limbs) % 2 ^ r)

\* the whole part of limbs / 2^k
ShiftRight(limbs, k) ==
    StripZeros(Shifted(SubSeq(limbs, 1, Len(limbs) - k \div Limb), k % Limb, 0))

\* the bit of weight 2^pos
Bit(limbs, pos) == (limbs[Len(limbs) - pos \div Limb] \div 2 ^ (pos % Limb)) % 2

\* one of the n lowest bits is 1
LowNonzero(limbs, n) ==
    \/ \E i \in (Len(limbs) - n \div Limb + 1)..Len(limbs) : limbs[i] # 0
    \/ limbs[Len(limbs) - n \div Limb] % 2 ^ (n % Limb) # 0

\* The Number nearest to limbs / 2^behind, ties to even; `inexact` says
\* that the integer stands for a value with nonzero digits behind it.
Normalize(limbs, behind, inexact) ==
    LET drop == BitLength(limbs) - Precision
        kept == ShiftRight(limbs, drop)
        sticky == inexact \/ LowNonzero(limbs, drop - 1)
        up == Bit(limbs, drop - 1) = 1 /\ (sticky \/ Bit(limbs, drop) = 1)
        rounded == IF up THEN Plus(kept, 1) ELSE kept
    IN IF limbs = <<>> THEN Zero
       ELSE IF drop <= 0
       THEN [limbs |-> ShiftLeft(limbs, -drop), behind |-> behind - drop]
       ELSE IF BitLength(rounded) > Precision
       THEN [limbs |-> ShiftRight(rounded, 1), behind |-> behind - drop - 1]
       ELSE [limbs |-> rounded, behind |-> behind - drop]

\* x + y
Add(x, y) ==
    LET behind == IF x.behind > y.behind THEN x.behind ELSE y.behind
    IN IF x = Zero THEN y
       ELSE IF y = Zero THEN x
       ELSE Normalize(Sum(ShiftLeft(x.limbs, behind - x.behind),
                          ShiftLeft(y.limbs, behind - y.behind), 0),
                      behind, FALSE)

\* the digits in base 2^12 of three limbs
Digits(limbs) ==
    <<limbs[1] \div 4096, limbs[1] % 4096, limbs[2] \div 64,
      (limbs[2] % 64) * 64 + limbs[3] \div 4096, limbs[3] % 4096>>

\* acc * 4096^Len(digits) + limbs * digits
RECURSIVE Horner(_, _, _)
Horner(acc, limbs, digits) ==
    IF digits = <<>> THEN acc
    ELSE Horner(Sum(Times(acc, 4096, 0), Times(limbs, Head(digits), 0), 0),
                limbs, Tail(digits))

\* x * y
Multiply(x, y) ==
    IF x = Zero \/ y = Zero THEN Zero
    ELSE Normalize(StripZeros(Horner(<<>>, x.limbs, Digits(y.limbs))),
                   x.behind + y.behind, FALSE)

\* the first 10 * steps bits behind the point of (acc + r / d), and what
\* is left of r
RECURSIVE LongDivision(_, _, _, _)
LongDivision(acc, r, d, steps) ==
    IF steps = 0 THEN [limbs |-> acc, rest |-> r]
    ELSE LongDivision(Times(acc, 1024, (r * 1024) \div d), (r * 1024) % d,
                      d, steps - 1)

\* p / d for integers 0 <= p < 2^18 * d and 0 < d < 2^21
Quotient(p, d) ==
    LET q == LongDivision(IF p < d THEN <<>> ELSE <<p \div d>>, p % d, d, 8)
    IN Normalize(q.limbs, 80, q.rest # 0)

\* the generated content of a word (GroqService.generateVocabDetails)
Contents ==
    {[definition |-> "d1", example |-> "e1", ipa |-> "i1"],
     [definition |-> "d2", example |-> "e2", ipa |-> "i2"]}

\* the progress fields a caller may put on an incoming record
IncomingProgress ==
    {[mastery |-> 0, attempts |-> 0, correct |-> 0, lastPracticed |-> 0],
     [mastery |-> 50, attempts |-> 2, correct |-> 1, lastPracticed |-> 1]}

Item(id, word, c, p) ==
    [id |-> id, word |-> word, definition |-> c.definition,
     example |-> c.example, ipa |-> c.ipa, mastery |-> p.mastery,
     attempts |-> p.attempts, correct |-> p.correct,
     lastPracticed |-> p.lastPracticed]

\* sequences over S of length at most n
RECURSIVE SeqsUpTo(_, _)
SeqsUpTo(S, n) ==
    IF n = 0 THEN {<<>>}
    ELSE LET shorter == SeqsUpTo(S, n - 1)
         IN shorter \cup {Append(s, x) : s \in {t \in shorter : Len(t) = n - 1}, x \in S}

NoDuplicates(s) == \A i, j \in 1..Len(s) : s[i] = s[j] => i = j

Range(s) == {s[i] : i \in 1..Len(s)}

\* ------------------------------------------------------------------- state
VARIABLES
    rawWords,        \* the Word Ledger
    activeWords,     \* the Active Working Set
    vocabDetails,    \* the record map, keyed by lowercased word
    supabaseUrl,
    supabaseKey,
    now,             \* Date.now(), ticking once per recorded answer
    nextId,          \* ids minted so far
    remote,          \* the vocabulary table: id -> row
    calls,           \* remote mirror calls in flight
    syncPc,          \* where syncWithSupabase stands
    syncData,        \* the rows its last getVocabulary fetched
    syncThrown,      \* how the last syncWithSupabase ended
    syncError,       \* Settings: the message handleSync shows
    hist,            \* per key: the practice outcomes since the record was fresh
    ops,             \* operations started so far
    last,            \* the last local operation and what it found
    groqApiKey,
    groqModel,
    totalSpend,      \* dollars, a Number
    quizQuestions,
    quizAnswers,     \* position -> {answer, correct}
    currentQuizIndex,
    writingQuestions,
    writingAnswers,
    currentWritingIndex,
    page,            \* the route whose page is mounted
    quizLoading,     \* QuizPage: loading
    quizType,        \* QuizPage: quizType
    quizShowResult,  \* Quiz: showResult
    writingLoading,  \* WritingPage: loading
    writingError,    \* WritingPage: error is set
    writingShowResult, \* WritingPractice: showResult
    runs,            \* calls of generate that have not returned yet
    timers,          \* auto-advance timeouts of Quiz.handleSubmit not fired yet
    nextRun          \* calls of generate so far

vars ==
    <<rawWords, activeWords, vocabDetails, supabaseUrl, supabaseKey, now,
      nextId, remote, calls, syncPc, syncData, syncThrown, syncError, hist,
      ops, last, groqApiKey, groqModel, totalSpend, quizQuestions, quizAnswers,
      currentQuizIndex, writingQuestions, writingAnswers, currentWritingIndex,
      page, quizLoading, quizType, quizShowResult, writingLoading,
      writingError, writingShowResult, runs, timers, nextRun>>

store == <<rawWords, activeWords, vocabDetails>>

syncVars == <<syncPc, syncData, syncThrown, syncError>>

\* the quiz session and the writing session
quizSession == <<quizQuestions, quizAnswers, currentQuizIndex>>

writingSession == <<writingQuestions, writingAnswers, currentWritingIndex>>

groqVars == <<groqApiKey, groqModel, totalSpend>>

\* the state of the mounted page and of the work it left running
quizPageVars == <<quizLoading, quizType, quizShowResult, timers>>

writingPageVars == <<writingLoading, writingError, writingShowResult>>

pageVars == <<page, quizPageVars, writingPageVars, runs, nextRun>>

\* what the vocabulary operations leave alone
practiceVars == <<groqVars, quizSession, writingSession, pageVars>>

Configured == supabaseUrl # "" /\ supabaseKey # ""

\* ------------------------------------------------------------ ghost history
\* What `last` records: of the last operation started its name, its word,
\* whether the Ledger held the word and the record map had its key, and
\* whether the incoming record carried progress; of a session reset whether
\* the session held questions; of the mirror calls whether one has failed so
\* far and how the promise of the last operation that awaited one settled.
NoOperation ==
    [op |-> "", word |-> NoWord, inLedger |-> FALSE, hadRecord |-> FALSE,
     carried |-> FALSE, held |-> FALSE, failed |-> FALSE, promise |-> ""]

Operation(op) == [NoOperation EXCEPT !.op = op]

NoHist == [valid |-> FALSE, n |-> 0, k |-> 0]

FreshHist == [valid |-> TRUE, n |-> 0, k |-> 0]

IsFresh(r) == r.attempts = 0 /\ r.correct = 0 /\ r.mastery = 0

\* The history after an operation other than a practice outcome wrote `keys`
\* of the record map `details`.
Touch(h, details, keys) ==
    [key \in DOMAIN details |->
        IF key \in keys \/ key \notin DOMAIN h
        THEN IF IsFresh(details[key]) THEN FreshHist ELSE NoHist
        ELSE h[key]]

\* -------------------------------------------------------- SupabaseService
\* addWords: the row upserted for an item.
ToRow(item) ==
    [id |-> item.id, word |-> item.word, definition |-> item.definition,
     example |-> item.example, ipa |-> item.ipa, mastery |-> item.mastery,
     attempts |-> item.attempts, correct |-> item.correct,
     last_practiced |-> item.lastPracticed]

\* getVocabulary: the item mapped from a row.
FromRow(row) ==
    [id |-> row.id, word |-> row.word, definition |-> row.definition,
     example |-> row.example, ipa |-> row.ipa, mastery |-> row.mastery,
     attempts |-> row.attempts, correct |-> row.correct,
     lastPracticed |-> row.last_practiced]

\* upsert on the primary key id.
Upsert(table, row) == Put(table, row.id, row)

\* delete().eq('word', word): an exact match on the word column.
DeleteWord(table, word) ==
    [id \in {i \in DOMAIN table : table[i].word # word} |-> table[id]]

\* an update that leaves the attempts column as it is
UpdateProgressWithoutAttempts(table, item) ==
    [id \in DOMAIN table |->
        IF id = item.id
        THEN [table[id] EXCEPT !.mastery = item.mastery,
                               !.correct = item.correct,
                               !.last_practiced = item.lastPracticed]
        ELSE table[id]]

\* update({mastery, attempts, correct, last_practiced}).eq('id', item.id)
UpdateProgress(table, item) ==
    [id \in DOMAIN table |->
        IF id = item.id
        THEN [table[id] EXCEPT !.mastery = item.mastery,
                               !.attempts = item.attempts,
                               !.correct = item.correct,
                               !.last_practiced = item.lastPracticed]
        ELSE table[id]]

\* the rows of select('*') in one of the orders the server may return them
RECURSIVE Orders(_)
Orders(S) ==
    IF S = {} THEN {<<>>}
    ELSE UNION {{<<x>> \o s : s \in Orders(S \ {x})} : x \in S}

Listings(table) == Orders(DOMAIN table)

\* What the vocabulary select of checkConnection can come back with: no
\* error, an error object {code, message}, or a thrown exception.
CouldNotFindTheTable == "Could not find the table 'public.vocabulary' in the schema cache"

CheckReplies ==
    {[kind |-> "ok", code |-> "", message |-> ""],
     [kind |-> "error", code |-> "42P01", message |-> "relation does not exist"],
     [kind |-> "error", code |-> "PGRST205", message |-> CouldNotFindTheTable],
     [kind |-> "error", code |-> "42501", message |-> "permission denied"],
     [kind |-> "throw", code |-> "", message |-> "Failed to fetch"]}

\* error.message.includes('Could not find the table')
IncludesCouldNotFind(message) == message = CouldNotFindTheTable

\* a check that reports every failure as the missing table
CheckConnectionMissing(reply) ==
    IF reply.kind = "ok" THEN [connected |-> TRUE, error |-> ""]
    ELSE [connected |-> FALSE, error |-> "table_missing"]

\* checkConnection: {connected, error}, the error given by its message.
CheckConnection(reply) ==
    IF reply.kind = "ok" THEN [connected |-> TRUE, error |-> ""]
    ELSE IF reply.kind = "error"
            /\ (reply.code = "42P01" \/ IncludesCouldNotFind(reply.message))
         THEN [connected |-> FALSE, error |-> "table_missing"]
         ELSE [connected |-> FALSE, error |-> reply.message]

\* ------------------------------------------------------------------- Init
Urls == {"", "https://project.supabase.co"}

Keys == {"", "anon-key"}

GroqKeys == {"", "gsk_key"}

\* The store as created, before any vocabulary is saved.  The persisted
\* snapshot it is created from may already hold the remote credentials.
Init ==
    /\ rawWords = <<>>
    /\ activeWords = <<>>
    /\ vocabDetails = <<>>
    /\ supabaseUrl \in Urls
    /\ supabaseKey \in Keys
    /\ now = 0
    /\ nextId = 0
    /\ remote = <<>>
    /\ calls = {}
    /\ syncPc = "idle"
    /\ syncData = <<>>
    /\ syncThrown = "none"
    /\ syncError = ""
    /\ hist = <<>>
    /\ ops = 0
    /\ last = NoOperation
    /\ groqApiKey \in GroqKeys
    /\ groqModel = "llama-3.1-8b-instant"
    /\ totalSpend = Zero
    /\ quizQuestions = <<>>
    /\ quizAnswers = <<>>
    /\ currentQuizIndex = 0
    /\ writingQuestions = <<>>
    /\ writingAnswers = <<>>
    /\ currentWritingIndex = 0
    /\ page = "home"
    /\ quizLoading = FALSE
    /\ quizType = "definition"
    /\ quizShowResult = FALSE
    /\ writingLoading = FALSE
    /\ writingError = FALSE
    /\ writingShowResult = FALSE
    /\ runs = {}
    /\ timers = {}
    /\ nextRun = 0


\* ------------------------------------------------------------ local lists
\* setRawWords: the Ledger is replaced verbatim.  Home.handleSave, its only
\* caller, passes Array.from(new Set(...)): a list without duplicates.
SetRawWords(words) ==
    /\ rawWords' = words
    /\ UNCHANGED <<practiceVars, activeWords, vocabDetails, supabaseUrl, supabaseKey, now,
                   nextId, remote, calls, syncVars, hist>>

\* setActiveWords: the Active Working Set is replaced verbatim.
SetActiveWords(words) ==
    /\ activeWords' = words
    /\ UNCHANGED <<practiceVars, rawWords, vocabDetails, supabaseUrl, supabaseKey, now,
                   nextId, remote, calls, syncVars, hist>>

SetSupabaseConfig(url, key) ==
    /\ supabaseUrl' = url
    /\ supabaseKey' = key
    /\ UNCHANGED <<practiceVars, store, now, nextId, remote, calls, syncVars, hist>>

\* a remote call in flight: the request and the rest of the loop awaiting it
Call(op, item, word, rest) ==
    [op |-> op, item |-> item, word |-> word, rest |-> rest, st |-> "sent"]

\* --------------------------------------------------------- addVocabDetails
\* a merge that stores the incoming item as it is
MergedAsIncoming(item, existing) == item

\* The record stored for an incoming item: the item's own fields, with the
\* progress fields of the record already under its key (or 0).
Merged(item, existing) ==
    [item EXCEPT !.mastery = OrZero(existing.mastery),
                 !.attempts = OrZero(existing.attempts),
                 !.correct = OrZero(existing.correct),
                 !.lastPracticed = OrZero(existing.lastPracticed)]

\* details.forEach(item => ...) over the copy newDetails
RECURSIVE MergeDetails(_, _)
MergeDetails(newDetails, details) ==
    IF details = <<>> THEN newDetails
    ELSE LET item == Head(details)
             key == ToLowerCase(item.word)
             existing == Get(newDetails, key)
         IN MergeDetails(Put(newDetails, key, Merged(item, existing)),
                         Tail(details))

\* One turn of `for (const item of details)`: the record now under the next
\* word's key is read and its upsert sent.  Reading a property of undefined
\* (no record, nothing inherited) throws inside addWords and ends the loop.
NextUpsert(details, words) ==
    IF words = <<>> THEN {}
    ELSE LET key == ToLowerCase(Head(words))
         IN IF Truthy(details, key)
            THEN {Call("upsert", Get(details, key), NoWord, Tail(words))}
            ELSE {}

MergeVocabDetails(details) ==
    /\ \A i \in 1..Len(details) : details[i].id = nextId + i
    /\ Configured => Cardinality(calls) < MaxCalls
    /\ vocabDetails' = MergeDetails(vocabDetails, details)
    /\ nextId' = nextId + Len(details)
    /\ hist' = Touch(hist, vocabDetails',
                     {ToLowerCase(details[i].word) : i \in 1..Len(details)})
    /\ calls' = IF Configured
                THEN calls \cup NextUpsert(vocabDetails',
                                           [i \in 1..Len(details) |-> details[i].word])
                ELSE calls
    /\ UNCHANGED <<rawWords, activeWords, supabaseUrl, supabaseKey, now,
                   remote, syncVars>>

AddVocabDetails(details) ==
    MergeVocabDetails(details) /\ UNCHANGED practiceVars

\* -------------------------------------------------------------- removeWord
\* a filter that compares the words without regard to case
WithoutWordIgnoringCase(words, word) ==
    SelectSeq(words, LAMBDA w : ToLowerCase(w) # ToLowerCase(word))

\* state.rawWords.filter(w => w !== word)
WithoutWord(words, word) == SelectSeq(words, LAMBDA w : w # word)

RemoveWord(word) ==
    /\ Configured => Cardinality(calls) < MaxCalls
    /\ rawWords' = WithoutWord(rawWords, word)
    /\ vocabDetails' = Delete(vocabDetails, ToLowerCase(word))
    /\ hist' = [key \in DOMAIN vocabDetails' |-> hist[key]]
    /\ calls' = IF Configured
                THEN calls \cup {Call("delete", Blank, word, <<>>)}
                ELSE calls
    /\ UNCHANGED <<practiceVars, activeWords, supabaseUrl, supabaseKey, now, nextId,
                   remote, syncVars>>

\* ------------------------------------------------------ updateWordProgress
\* updatedItem, from the value read under the lowercased word
UpdatedItem(item, isCorrect, time) ==
    LET attempts == OrZero(item.attempts) + 1
        correct == OrZero(item.correct) + (IF isCorrect THEN 1 ELSE 0)
    IN [item EXCEPT !.attempts = attempts, !.correct = correct,
                    !.mastery = MathRound(correct, attempts),
                    !.lastPracticed = time]

\* The set callback and the mirror call of updateWordProgress: what it does
\* to the record map, the clock and the calls in flight.
RecordOutcome(word, isCorrect) ==
    LET lowerWord == ToLowerCase(word)
        updatedItem == UpdatedItem(Get(vocabDetails, lowerWord), isCorrect, now + 1)
    IN IF ~Truthy(vocabDetails, lowerWord)
       THEN UNCHANGED <<vocabDetails, now, hist, calls>>
       ELSE /\ Configured => Cardinality(calls) < MaxCalls
            /\ now' = now + 1
            /\ vocabDetails' = Put(vocabDetails, lowerWord, updatedItem)
            /\ hist' = [key \in DOMAIN vocabDetails' |->
                          IF key # lowerWord THEN hist[key]
                          ELSE IF key \in DOMAIN hist /\ hist[key].valid
                               THEN [valid |-> TRUE, n |-> hist[key].n + 1,
                                     k |-> hist[key].k + (IF isCorrect THEN 1 ELSE 0)]
                               ELSE NoHist]
            /\ calls' = IF Configured
                        THEN calls \cup {Call("update", updatedItem, NoWord, <<>>)}
                        ELSE calls

UpdateWordProgress(word, isCorrect) ==
    /\ RecordOutcome(word, isCorrect)
    /\ UNCHANGED <<practiceVars, rawWords, activeWords, supabaseUrl,
                   supabaseKey, nextId, remote, syncVars>>

\* ------------------------------------------------ the remote mirror calls
\* The server handles an upsert: the row is written, or the call fails (the
\* transport fails, or the row has no id and the table rejects it).
UpsertHandled(c, ok) ==
    /\ c \in calls /\ c.op = "upsert" /\ c.st = "sent"
    /\ ok => c.item.id # NoId
    /\ remote' = IF ok THEN Upsert(remote, ToRow(c.item)) ELSE remote
    /\ calls' = (calls \ {c}) \cup {[c EXCEPT !.st = IF ok THEN "ok" ELSE "err"]}
    /\ UNCHANGED <<practiceVars, store, supabaseUrl, supabaseKey, now, nextId, syncVars, hist>>

\* addVocabDetails resumes after `await supabase.addWord(currentItem)`: a
\* rejection leaves the loop through the catch, a success goes on to the
\* next item.
AddWordReturns(c) ==
    /\ c \in calls /\ c.op = "upsert" /\ c.st # "sent"
    /\ calls' = (calls \ {c})
                  \cup (IF c.st = "ok" THEN NextUpsert(vocabDetails, c.rest) ELSE {})
    /\ UNCHANGED <<practiceVars, store, supabaseUrl, supabaseKey, now, nextId, remote,
                   syncVars, hist>>

\* deleteWord completes; removeWord only logs a failure.
DeleteHandled(c, ok) ==
    /\ c \in calls /\ c.op = "delete"
    /\ remote' = IF ok THEN DeleteWord(remote, c.word) ELSE remote
    /\ calls' = calls \ {c}
    /\ UNCHANGED <<practiceVars, store, supabaseUrl, supabaseKey, now, nextId, syncVars, hist>>

\* a server that applies a progress update only to a row with fewer attempts
UpdateHandledKeepingNewest(c, ok) ==
    /\ c \in calls /\ c.op = "update"
    /\ remote' = IF ok /\ c.item.id \in DOMAIN remote
                       /\ remote[c.item.id].attempts < c.item.attempts
                  THEN UpdateProgress(remote, c.item) ELSE remote
    /\ calls' = calls \ {c}
    /\ UNCHANGED <<practiceVars, store, supabaseUrl, supabaseKey, now, nextId, syncVars, hist>>

\* updateWordProgress (the service) completes; the store only logs a failure.
UpdateHandled(c, ok) ==
    /\ c \in calls /\ c.op = "update"
    /\ remote' = IF ok THEN UpdateProgress(remote, c.item) ELSE remote
    /\ calls' = calls \ {c}
    /\ UNCHANGED <<practiceVars, store, supabaseUrl, supabaseKey, now, nextId, syncVars, hist>>

\* --------------------------------------------------------- syncWithSupabase
\* err.message || 'Sync failed' (Settings.handleSync)
Shown(message) == IF message = "" THEN "Sync failed" ELSE message

\* The call: without credentials it returns at once; otherwise the
\* connectivity check is sent.  handleSync clears its message first.
SyncWithSupabase ==
    /\ syncPc = "idle"
    /\ syncError' = ""
    /\ syncData' = <<>>
    /\ IF Configured
       THEN syncPc' = "check" /\ syncThrown' = "pending"
       ELSE syncPc' = "idle" /\ syncThrown' = "returned"
    /\ UNCHANGED <<practiceVars, store, supabaseUrl, supabaseKey, now, nextId, remote,
                   calls, hist>>

\* a throw that does not tell the missing table apart
ThrownGeneric(check) == "Connection failed"

\* What syncWithSupabase throws for a failed check: Error('table_missing')
\* or check.error, each given by its message.
Thrown(check) ==
    IF check.error = "table_missing" THEN "table_missing" ELSE check.error

\* checkConnection returns and syncWithSupabase resumes.
SyncCheckReturns(reply) ==
    /\ syncPc = "check"
    /\ LET check == CheckConnection(reply)
       IN IF check.connected
          THEN syncPc' = "fetch" /\ UNCHANGED <<syncThrown, syncError>>
          ELSE /\ syncPc' = "idle"
               /\ syncThrown' = Thrown(check)
               /\ syncError' = Shown(Thrown(check))
    /\ UNCHANGED <<practiceVars, store, supabaseUrl, supabaseKey, now, nextId, remote,
                   calls, syncData, hist>>

\* The server answers getVocabulary's select('*') with the rows it holds.
SyncFetchHandled(listing) ==
    /\ syncPc = "fetch"
    /\ syncPc' = "fetched"
    /\ syncData' = [i \in 1..Len(listing) |-> remote[listing[i]]]
    /\ UNCHANGED <<practiceVars, store, supabaseUrl, supabaseKey, now, nextId, remote,
                   calls, syncThrown, syncError, hist>>

\* getVocabulary fails and syncWithSupabase rethrows its error.
SyncFetchFails ==
    /\ syncPc = "fetch"
    /\ syncPc' = "idle"
    /\ syncThrown' = "Failed to fetch"
    /\ syncError' = Shown("Failed to fetch")
    /\ UNCHANGED <<practiceVars, store, supabaseUrl, supabaseKey, now, nextId, remote,
                   calls, syncData, hist>>

\* a fold in which the first record fetched for a key stays
RECURSIVE SyncFoldKeepFirst(_, _, _)
SyncFoldKeepFirst(remoteWords, newDetails, newRawWords) ==
    IF remoteWords = <<>>
    THEN [newDetails |-> newDetails, newRawWords |-> newRawWords]
    ELSE LET item == Head(remoteWords)
             key == ToLowerCase(item.word)
         IN SyncFoldKeepFirst(Tail(remoteWords),
                     IF key \in DOMAIN newDetails THEN newDetails
                     ELSE Put(newDetails, key, item),
                     IF item.word \in Range(newRawWords) THEN newRawWords
                     ELSE Append(newRawWords, item.word))

\* remoteWords.forEach(item => ...): newDetails and newRawWords
RECURSIVE SyncFold(_, _, _)
SyncFold(remoteWords, newDetails, newRawWords) ==
    IF remoteWords = <<>>
    THEN [newDetails |-> newDetails, newRawWords |-> newRawWords]
    ELSE LET item == Head(remoteWords)
         IN SyncFold(Tail(remoteWords),
                     Put(newDetails, ToLowerCase(item.word), item),
                     IF item.word \in Range(newRawWords) THEN newRawWords
                     ELSE Append(newRawWords, item.word))

\* state.activeWords.filter(w => newDetails[w.toLowerCase()])
ValidActiveWords(active, newDetails) ==
    SelectSeq(active, LAMBDA w : Truthy(newDetails, ToLowerCase(w)))

\* getVocabulary returns and the overwrite is applied.
SyncApply ==
    /\ syncPc = "fetched"
    /\ LET remoteWords == [i \in 1..Len(syncData) |-> FromRow(syncData[i])]
           new == SyncFold(remoteWords, <<>>, <<>>)
       IN /\ vocabDetails' = new.newDetails
          /\ rawWords' = new.newRawWords
          /\ activeWords' = ValidActiveWords(activeWords, new.newDetails)
          /\ hist' = Touch(hist, new.newDetails, DOMAIN new.newDetails)
    /\ syncPc' = "idle"
    /\ syncThrown' = "returned"
    /\ UNCHANGED <<practiceVars, supabaseUrl, supabaseKey, now, nextId,
                   remote, calls, syncData, syncError>>

\* -------------------------------------------------------------------- Next
\* an operation the user starts, within the bound
Op(A) == ops < MaxOps /\ ops' = ops + 1 /\ UNCHANGED last /\ A

\* a step of a call in flight
Step(A) == UNCHANGED <<ops, last>> /\ A

NoProgress == [mastery |-> 0, attempts |-> 0, correct |-> 0, lastPracticed |-> 0]

FirstContent == [definition |-> "d1", example |-> "e1", ipa |-> "i1"]

\* the lists a user types into the editor (Home, text -> activeWords)
TypedLists == SeqsUpTo(Words, 2)

\* Array.from(new Set(words)): the first occurrence of every word, in order
RECURSIVE Distinct(_)
Distinct(words) ==
    IF words = <<>> THEN <<>>
    ELSE LET front == SubSeq(words, 1, Len(words) - 1)
             w == words[Len(words)]
         IN IF w \in Range(front) THEN Distinct(front)
            ELSE Append(Distinct(front), w)

\* Home.handleSave with no Groq key saved:
\* setRawWords(Array.from(new Set([...rawWords, ...words]))) with the typed
\* words; setActiveWords(words) leaves activeWords as typed.
HandleSave == SetRawWords(Distinct(rawWords \o activeWords))

\* The batches Home.handleSave and FlashcardsPage pass to addVocabDetails:
\* generated content under freshly minted ids, progress fields 0.
GeneratedBatches ==
    {<<Item(nextId + 1, w, FirstContent, NoProgress)>> : w \in Words}

Next ==
    \/ \E words \in TypedLists : Op(SetActiveWords(words))
    \/ Op(HandleSave)
    \/ \E url \in Urls, key \in Keys : Op(SetSupabaseConfig(url, key))
    \/ \E details \in GeneratedBatches : Op(AddVocabDetails(details))
    \/ \E word \in Words : Op(RemoveWord(word))
    \/ \E word \in Words, isCorrect \in BOOLEAN :
          Op(UpdateWordProgress(word, isCorrect))
    \/ \E c \in calls, ok \in BOOLEAN : Step(UpsertHandled(c, ok))
    \/ \E c \in calls : Step(AddWordReturns(c))
    \/ \E c \in calls, ok \in BOOLEAN : Step(DeleteHandled(c, ok))
    \/ \E c \in calls, ok \in BOOLEAN : Step(UpdateHandled(c, ok))
    \/ Op(SyncWithSupabase)
    \/ \E reply \in CheckReplies : Step(SyncCheckReturns(reply))
    \/ \E listing \in Listings(remote) : Step(SyncFetchHandled(listing))
    \/ Step(SyncFetchFails)
    \/ Step(SyncApply)

\* no Groq key is saved
InitStore == Init /\ groqApiKey = ""

\* The store with its remote mirror and syncWithSupabase.
Spec == InitStore /\ [][Next]_vars


\* ------------------------------------------------- the store and its mirror
\* a catch that throws the error on to the caller
Rethrown(ok) == IF ok THEN "fulfilled" ELSE "rejected"

\* try { await supabase... } catch (err) { console.error(...) }: how the
\* promise of the operation settles when its mirror call succeeded or not
Caught(ok) == "fulfilled"

\* an operation started, recorded in `last`
MirrorOp(A, did) ==
    /\ ops < MaxOps
    /\ ops' = ops + 1
    /\ last' = [did EXCEPT !.failed = last.failed, !.promise = last.promise]
    /\ A

\* the operation that awaited a mirror call returns
Settle(A, ok) ==
    /\ UNCHANGED ops
    /\ last' = [last EXCEPT !.failed = @ \/ ~ok, !.promise = Caught(ok)]
    /\ A

\* addVocabDetails leaves its loop: the upsert was rejected, the next record
\* is gone (addWords throws on it), or no item is left
AddWordSettles(c) ==
    /\ c \in calls /\ c.op = "upsert" /\ c.st # "sent"
    /\ LET more == c.st = "ok" /\ NextUpsert(vocabDetails, c.rest) # {}
           ok == c.st = "ok" /\ c.rest = <<>>
       IN IF more THEN Step(AddWordReturns(c)) ELSE Settle(AddWordReturns(c), ok)

DeleteSettles(c, ok) == Settle(DeleteHandled(c, ok), ok)

UpdateSettles(c, ok) == Settle(UpdateHandled(c, ok), ok)

\* the batches saved while the mirror is watched
MirrorBatches ==
    {<<Item(nextId + 1, w, FirstContent, NoProgress)>> : w \in {WordLowerA, WordB}}
    \cup {<<Item(nextId + 1, WordLowerA, FirstContent, NoProgress),
            Item(nextId + 2, WordB, FirstContent, NoProgress)>>}

Started(op, word) == [NoOperation EXCEPT !.op = op, !.word = word]

NextMirror ==
    \/ \E details \in MirrorBatches :
          MirrorOp(AddVocabDetails(details), Started("addVocabDetails", details[1].word))
    \/ \E word \in {WordLowerA, WordB} :
          MirrorOp(RemoveWord(word), Started("removeWord", word))
    \/ \E isCorrect \in BOOLEAN :
          MirrorOp(UpdateWordProgress(WordLowerA, isCorrect),
                   Started("updateWordProgress", WordLowerA))
    \/ \E c \in calls, ok \in BOOLEAN : Step(UpsertHandled(c, ok))
    \/ \E c \in calls : AddWordSettles(c)
    \/ \E c \in calls, ok \in BOOLEAN : DeleteSettles(c, ok)
    \/ \E c \in calls, ok \in BOOLEAN : UpdateSettles(c, ok)

\* the remote credentials are saved, and no Groq key
InitMirror == Init /\ Configured /\ groqApiKey = ""

\* The store's mutations and their mirror calls, with credentials saved.
SpecMirror == InitMirror /\ [][NextMirror]_vars

\* ------------------------------------- the mirror, one operation at a time
\* the batches saved: one record, under either case of its word, or two
SequentialBatches ==
    {<<Item(nextId + 1, w, FirstContent, NoProgress)>> :
        w \in {WordLowerA, WordUpperA, WordB}}
    \cup {<<Item(nextId + 1, WordLowerA, FirstContent, NoProgress),
            Item(nextId + 2, WordB, FirstContent, NoProgress)>>}

\* Each operation starts when no mirror call is in flight, and no call fails.
NextSequential ==
    \/ \E details \in SequentialBatches :
          /\ calls = {}
          /\ MirrorOp(AddVocabDetails(details),
                      Started("addVocabDetails", details[1].word))
    \/ \E word \in {WordLowerA, WordUpperA, WordB} :
          calls = {} /\ MirrorOp(RemoveWord(word), Started("removeWord", word))
    \/ \E word \in {WordLowerA, WordB}, isCorrect \in BOOLEAN :
          /\ calls = {}
          /\ MirrorOp(UpdateWordProgress(word, isCorrect),
                      Started("updateWordProgress", word))
    \/ \E c \in calls : Step(UpsertHandled(c, TRUE))
    \/ \E c \in calls : AddWordSettles(c)
    \/ \E c \in calls : DeleteSettles(c, TRUE)
    \/ \E c \in calls : UpdateSettles(c, TRUE)

\* The store's mutations with credentials saved, each with its mirror calls
\* completed, none failing, before the next.
SpecSequential == InitMirror /\ [][NextSequential]_vars

\* ----------------------------------------------------- the store, locally
\* The batches addVocabDetails accepts: one or two items under fresh ids,
\* with either content and with progress fields that are 0 or not.
IncomingBatches ==
    {<<Item(nextId + 1, w, c, p)>> :
        w \in Words, c \in Contents, p \in IncomingProgress}
    \cup {<<Item(nextId + 1, ws[1], FirstContent, NoProgress),
            Item(nextId + 2, ws[2], FirstContent, NoProgress)>> :
            ws \in {<<WordLowerA, WordUpperA>>, <<WordUpperA, WordLowerA>>,
                    <<WordLowerA, WordConstructor>>}}

LocalOp(A, did) == ops < MaxLocalOps /\ ops' = ops + 1 /\ last' = did /\ A

Removal(word) ==
    [NoOperation EXCEPT !.op = "removeWord", !.word = word,
                        !.inLedger = word \in Range(rawWords),
                        !.hadRecord = ToLowerCase(word) \in DOMAIN vocabDetails]

\* what `last` records of addVocabDetails: the first item's word, whether
\* its key had a record and whether the item carried progress
Addition(details) ==
    [NoOperation EXCEPT !.op = "addVocabDetails", !.word = details[1].word,
                        !.hadRecord = ToLowerCase(details[1].word) \in DOMAIN vocabDetails,
                        !.carried = details[1].attempts # 0]

NextLocal ==
    \/ \E words \in {s \in SeqsUpTo({WordLowerA, WordUpperA}, 2) : NoDuplicates(s)} :
          LocalOp(SetRawWords(words), Operation("setRawWords"))
    \/ \E words \in SeqsUpTo({WordUpperA}, 1) :
          LocalOp(SetActiveWords(words), Operation("setActiveWords"))
    \/ \E details \in IncomingBatches :
          LocalOp(AddVocabDetails(details), Addition(details))
    \/ \E word \in Words : LocalOp(RemoveWord(word), Removal(word))
    \/ \E word \in Words, isCorrect \in BOOLEAN :
          LocalOp(UpdateWordProgress(word, isCorrect),
                  Operation("updateWordProgress"))

\* the remote credentials are not both saved, and no Groq key
InitLocal == Init /\ ~Configured /\ groqApiKey = ""

\* The store's local operations, with no remote credentials saved.
SpecLocal == InitLocal /\ [][NextLocal]_vars


\* ------------------------------------------------------ content generation
\* GeneratedQuestion for one word, as the prompt of generateQuiz asks for
\* it: the correct answer is the word's definition ("d:" and the word), the
\* missing word itself, or the word's antonym ("!" and the word).
QuizTypes == {"definition", "cloze", "antonym"}

CorrectAnswer(word, type) ==
    CASE type = "definition" -> <<100, 58>> \o word
      [] type = "cloze" -> word
      [] type = "antonym" -> <<33>> \o word

Question(word, type) ==
    [question |-> word, correctAnswer |-> CorrectAnswer(word, type)]

\* WritingExercise for one word (generateWritingExercises)
Exercise(word) == [word |-> word]

\* an option, or a typed answer, that is not the correct one: "x"
Distractor == <<120>>

\* the usage a completion reports
Usage == [prompt_tokens |-> 1000, completion_tokens |-> 500]

\* dollars per million tokens, in hundredths
PRICING ==
    [model \in {"llama-3.1-8b-instant", "llama3-8b-8192",
                "llama-3.1-70b-versatile", "mixtral-8x7b-32768",
                "gemma2-9b-it"} |->
        CASE model = "llama-3.1-8b-instant" -> [input |-> 5, output |-> 8]
          [] model = "llama3-8b-8192" -> [input |-> 5, output |-> 8]
          [] model = "llama-3.1-70b-versatile" -> [input |-> 59, output |-> 79]
          [] model = "mixtral-8x7b-32768" -> [input |-> 24, output |-> 24]
          [] model = "gemma2-9b-it" -> [input |-> 20, output |-> 20]]

\* the usages completions report
Usages ==
    {Usage, [prompt_tokens |-> 800, completion_tokens |-> 200],
     [prompt_tokens |-> 1500, completion_tokens |-> 700],
     [prompt_tokens |-> 1000000, completion_tokens |-> 1000000]}

\* the usage of two completions taken together
Together(a, b) ==
    [prompt_tokens |-> a.prompt_tokens + b.prompt_tokens,
     completion_tokens |-> a.completion_tokens + b.completion_tokens]

\* the models picked in Settings: two with a price and one without
GroqModels ==
    {"llama-3.1-8b-instant", "llama-3.1-70b-versatile", "llama-3.3-70b-versatile"}

\* a cost that is nothing for a model without a price row
TotalCostOfPricedModels(model, usage) ==
    IF model \notin DOMAIN PRICING THEN Zero
    ELSE Add(Multiply(Quotient(usage.prompt_tokens, 1000000),
                      Quotient(PRICING[model].input, 100)),
             Multiply(Quotient(usage.completion_tokens, 1000000),
                      Quotient(PRICING[model].output, 100)))

\* totalCost of trackGroqUsage for a model and a usage; a price is the
\* Number its literal denotes, the quotient of its hundredths by 100.
TotalCost(model, usage) ==
    LET pricing == IF model \in DOMAIN PRICING THEN PRICING[model]
                   ELSE PRICING["llama-3.1-8b-instant"]
        inputCost == Multiply(Quotient(usage.prompt_tokens, 1000000),
                              Quotient(pricing.input, 100))
        outputCost == Multiply(Quotient(usage.completion_tokens, 1000000),
                               Quotient(pricing.output, 100))
    IN Add(inputCost, outputCost)

\* totalCost for the models and usages that occur, computed once
totalCost ==
    [model \in GroqModels,
     usage \in Usages \cup {Together(a, b) : a, b \in Usages} |->
        TotalCost(model, usage)]

\* the running total after trackGroqUsage adds `usage` to `total` at the
\* prices of `model`
TotalAfter(total, model, usage) == Add(total, totalCost[model, usage])

\* trackGroqUsage: the running total after `usage` is added
TrackGroqUsage(usage) == TotalAfter(totalSpend, groqModel, usage)

chunkSize == 5

\* shuffled.slice(i, i + chunkSize) for i = 0, chunkSize, ...
RECURSIVE Chunks(_)
Chunks(shuffled) ==
    IF Len(shuffled) <= chunkSize
    THEN IF shuffled = <<>> THEN <<>> ELSE <<shuffled>>
    ELSE <<SubSeq(shuffled, 1, chunkSize)>>
         \o Chunks(SubSeq(shuffled, chunkSize + 1, Len(shuffled)))

\* [...activeWords].sort(() => 0.5 - Math.random()): some rearrangement
RECURSIVE Shuffles(_)
Shuffles(words) ==
    IF words = <<>> THEN {<<>>}
    ELSE UNION {{<<words[i]>> \o s :
                    s \in Shuffles(SubSeq(words, 1, i - 1)
                                   \o SubSeq(words, i + 1, Len(words)))} :
                i \in {j \in 1..Len(words) :
                          \A k \in 1..(j - 1) : words[k] # words[j]}}

\* A call of generate between its first request and its return: the chunks
\* not yet answered, the first of them requested, and the questions
\* accumulated.  The 500 ms pause between two chunks changes nothing, so the
\* next request counts as in flight from the moment a chunk is answered.
Run(id, kind, type, chunks) ==
    [id |-> id, kind |-> kind, type |-> type, attached |-> TRUE,
     chunks |-> chunks, all |-> <<>>]

\* The page a run or a timeout belonged to is unmounted: its setState calls
\* no longer have an effect, its store calls still do.
Detached(S) == {[x EXCEPT !.attached = FALSE] : x \in S}

\* ------------------------------------------------------- what is rendered
\* QuizPage renders <Quiz>: none of its early returns applies.
QuizShownWith(route, loading, questions) ==
    /\ route = "quiz"
    /\ Len(activeWords) >= 4
    /\ groqApiKey # ""
    /\ ~(loading /\ questions = <<>>)

QuizShown == QuizShownWith(page, quizLoading, quizQuestions)

\* Quiz renders the current question with its buttons.
QuizAsking ==
    /\ QuizShown
    /\ quizQuestions # <<>>
    /\ ~quizShowResult
    /\ currentQuizIndex < Len(quizQuestions)

\* The render that follows a step on the quiz: `index`, `showResult` and
\* `pending` are the cursor, Quiz's showResult and the timeouts as the step
\* left them.  Quiz's effect on [questions.length] runs when Quiz mounts
\* and when the length changes under it; an unmounted Quiz loses its state.
QuizRendered(route, loading, questions, index, showResult, pending) ==
    LET isShown == QuizShownWith(route, loading, questions)
        effectRuns == isShown /\ (~QuizShown \/ Len(questions) # Len(quizQuestions))
    IN /\ currentQuizIndex' =
            IF effectRuns /\ Len(questions) > 0 /\ index >= Len(questions)
            THEN 0 ELSE index
       /\ quizShowResult' = (isShown /\ showResult)
       /\ timers' = IF isShown THEN pending ELSE Detached(pending)

\* WritingPage renders <WritingPractice>.
WritingShownWith(route, loading, error, questions) ==
    /\ route = "writing"
    /\ Len(activeWords) >= 4
    /\ groqApiKey # ""
    /\ ~(loading /\ questions = <<>>)
    /\ ~error

WritingShown ==
    WritingShownWith(page, writingLoading, writingError, writingQuestions)

WritingAsking ==
    /\ WritingShown
    /\ writingQuestions # <<>>
    /\ ~writingShowResult
    /\ currentWritingIndex < Len(writingQuestions)

\* The render that follows a step on the writing session.
WritingRendered(route, loading, error, questions, index, showResult) ==
    LET isShown == WritingShownWith(route, loading, error, questions)
        effectRuns == isShown /\ (~WritingShown \/ Len(questions) # Len(writingQuestions))
    IN /\ currentWritingIndex' =
            IF effectRuns /\ Len(questions) > 0 /\ index >= Len(questions)
            THEN 0 ELSE index
       /\ writingShowResult' = (isShown /\ showResult)

vocabularyVars ==
    <<rawWords, activeWords, vocabDetails, supabaseUrl, supabaseKey, now,
      nextId, remote, calls, syncVars, hist>>

\* ------------------------------------------------------------ navigation
\* Leaving a page unmounts it: its component state is gone and what it
\* left running goes on without it.
NavigateHome ==
    /\ page # "home"
    /\ page' = "home"
    /\ quizLoading' = FALSE /\ quizType' = "definition"
    /\ writingLoading' = FALSE /\ writingError' = FALSE
    /\ runs' = Detached(runs)
    /\ QuizRendered("home", FALSE, quizQuestions, currentQuizIndex, FALSE, timers)
    /\ WritingRendered("home", FALSE, FALSE, writingQuestions,
                       currentWritingIndex, FALSE)
    /\ UNCHANGED <<vocabularyVars, groqVars, quizQuestions, quizAnswers,
                   writingQuestions, writingAnswers, nextRun>>

\* QuizPage.generate up to its first request.
QuizGenerate(type, shuffled, others) ==
    /\ quizLoading' = TRUE
    /\ quizQuestions' = <<>>
    /\ quizAnswers' = <<>>
    /\ runs' = others \cup {Run(nextRun + 1, "quiz", type, Chunks(shuffled))}
    /\ nextRun' = nextRun + 1
    /\ QuizRendered("quiz", TRUE, <<>>, 0, quizShowResult, timers)

\* /quiz is opened: QuizPage mounts and its effect calls generate().
NavigateQuiz ==
    /\ page # "quiz"
    /\ page' = "quiz"
    /\ quizType' = "definition"
    /\ writingLoading' = FALSE /\ writingError' = FALSE
    /\ WritingRendered("quiz", FALSE, FALSE, writingQuestions,
                       currentWritingIndex, FALSE)
    /\ IF Len(activeWords) >= 4 /\ groqApiKey # "" /\ quizQuestions = <<>>
       THEN \E shuffled \in Shuffles(activeWords) :
               QuizGenerate("definition", shuffled, Detached(runs))
       ELSE /\ quizLoading' = FALSE
            /\ runs' = Detached(runs)
            /\ QuizRendered("quiz", FALSE, quizQuestions, currentQuizIndex,
                            FALSE, timers)
            /\ UNCHANGED <<quizQuestions, quizAnswers, nextRun>>
    /\ UNCHANGED <<vocabularyVars, groqVars, writingQuestions, writingAnswers>>

\* WritingPage.generate up to its first request.
WritingGenerate(shuffled, others) ==
    /\ writingLoading' = TRUE
    /\ writingError' = FALSE
    /\ writingQuestions' = <<>>
    /\ writingAnswers' = <<>>
    /\ runs' = others \cup {Run(nextRun + 1, "writing", "cloze", Chunks(shuffled))}
    /\ nextRun' = nextRun + 1
    /\ WritingRendered("writing", TRUE, FALSE, <<>>, 0, writingShowResult)

\* /writing is opened: WritingPage mounts and its effect calls generate().
NavigateWriting ==
    /\ page # "writing"
    /\ page' = "writing"
    /\ quizLoading' = FALSE /\ quizType' = "definition"
    /\ QuizRendered("writing", FALSE, quizQuestions, currentQuizIndex, FALSE,
                    timers)
    /\ IF Len(activeWords) >= 4 /\ groqApiKey # "" /\ writingQuestions = <<>>
       THEN \E shuffled \in Shuffles(activeWords) :
               WritingGenerate(shuffled, Detached(runs))
       ELSE /\ writingLoading' = FALSE /\ writingError' = FALSE
            /\ runs' = Detached(runs)
            /\ WritingRendered("writing", FALSE, FALSE, writingQuestions,
                               currentWritingIndex, FALSE)
            /\ UNCHANGED <<writingQuestions, writingAnswers, nextRun>>
    /\ UNCHANGED <<vocabularyVars, groqVars, quizQuestions, quizAnswers>>

\* ------------------------------------------------------------- QuizPage
\* the Regenerate Quiz button: generate(true)
QuizRegenerate ==
    /\ QuizShown /\ ~quizLoading
    /\ \E shuffled \in Shuffles(activeWords) :
          QuizGenerate(quizType, shuffled, runs)
    /\ UNCHANGED <<vocabularyVars, groqVars, writingSession, page, quizType,
                   writingPageVars>>

\* the quiz type select: setQuizType and resetQuiz
QuizTypeChange(type) ==
    /\ QuizShown /\ type # quizType
    /\ quizType' = type
    /\ quizQuestions' = <<>>
    /\ quizAnswers' = <<>>
    /\ QuizRendered(page, quizLoading, <<>>, 0, quizShowResult, timers)
    /\ UNCHANGED <<vocabularyVars, groqVars, writingSession, page, quizLoading,
                   writingPageVars, runs, nextRun>>

\* generateQuiz returns for the chunk a quiz run is waiting for.
QuizChunkReturns(r, ok) ==
    /\ r \in runs /\ r.kind = "quiz"
    /\ LET chunk == Head(r.chunks)
           more == Len(r.chunks) > 1
           generated == [i \in 1..Len(chunk) |-> Question(chunk[i], r.type)]
           uniqueGenerated ==
               SelectSeq(generated, LAMBDA q :
                   \A i \in 1..Len(r.all) :
                       ToLowerCase(r.all[i].correctAnswer) # ToLowerCase(q.correctAnswer))
           allQuestions == r.all \o uniqueGenerated
           loading == IF ~more /\ r.attached THEN FALSE ELSE quizLoading
           questions == IF ok THEN allQuestions ELSE quizQuestions
       IN /\ totalSpend' = IF ok THEN TrackGroqUsage(Usage) ELSE totalSpend
          /\ quizQuestions' = questions
          /\ quizLoading' = loading
          /\ runs' = (runs \ {r}) \cup
                IF ~more THEN {}
                ELSE {[r EXCEPT !.chunks = Tail(r.chunks),
                                !.all = IF ok THEN allQuestions ELSE r.all]}
          /\ QuizRendered(page, loading, questions, currentQuizIndex,
                          quizShowResult, timers)
    /\ UNCHANGED <<vocabularyVars, groqApiKey, groqModel, quizAnswers,
                   writingSession, page, quizType, writingPageVars, nextRun>>

\* ----------------------------------------------------------------- Quiz
QuizHandleSubmit(right) ==
    /\ QuizAsking
    /\ currentQuizIndex \notin DOMAIN quizAnswers
    /\ LET currentQuestion == quizQuestions[currentQuizIndex + 1]
           selectedOption == IF right THEN currentQuestion.correctAnswer
                             ELSE Distractor
           isCorrect == selectedOption = currentQuestion.correctAnswer
       IN /\ quizAnswers' = Put(quizAnswers, currentQuizIndex,
                                [answer |-> selectedOption, correct |-> isCorrect])
          /\ RecordOutcome(currentQuestion.correctAnswer, isCorrect)
    /\ timers' = timers \cup {[index |-> currentQuizIndex,
                               length |-> Len(quizQuestions),
                               attached |-> TRUE]}
    /\ UNCHANGED <<rawWords, activeWords, supabaseUrl, supabaseKey, nextId,
                   remote, syncVars, groqVars, quizQuestions, currentQuizIndex,
                   writingSession, page, quizLoading, quizType, quizShowResult,
                   writingPageVars, runs, nextRun>>

\* The timeout of handleSubmit fires, with the cursor and the list length
\* of the render that submitted.
QuizTimeout(t) ==
    /\ t \in timers
    /\ timers' = timers \ {t}
    /\ IF t.index < t.length - 1
       THEN currentQuizIndex' = t.index + 1 /\ UNCHANGED quizShowResult
       ELSE quizShowResult' = (quizShowResult \/ t.attached)
            /\ UNCHANGED currentQuizIndex
    /\ UNCHANGED <<vocabularyVars, groqVars, quizQuestions, quizAnswers,
                   writingSession, page, quizLoading, quizType,
                   writingPageVars, runs, nextRun>>

QuizHandleNext ==
    /\ QuizAsking
    /\ currentQuizIndex < Len(quizQuestions) - 1
    /\ currentQuizIndex' = currentQuizIndex + 1
    /\ UNCHANGED <<vocabularyVars, groqVars, quizQuestions, quizAnswers,
                   writingSession, page, quizPageVars, writingPageVars, runs,
                   nextRun>>

QuizHandlePrev ==
    /\ QuizAsking
    /\ currentQuizIndex > 0
    /\ currentQuizIndex' = currentQuizIndex - 1
    /\ UNCHANGED <<vocabularyVars, groqVars, quizQuestions, quizAnswers,
                   writingSession, page, quizPageVars, writingPageVars, runs,
                   nextRun>>

\* Try Again on the result screen: resetQuizProgress
QuizHandleRestart ==
    /\ QuizShown /\ quizQuestions # <<>> /\ quizShowResult
    /\ quizAnswers' = <<>>
    /\ currentQuizIndex' = 0
    /\ quizShowResult' = FALSE
    /\ UNCHANGED <<vocabularyVars, groqVars, quizQuestions, writingSession,
                   page, quizLoading, quizType, timers, writingPageVars, runs,
                   nextRun>>

\* ----------------------------------------------------------- WritingPage
\* the Regenerate Exercises button and the Retry link: generate(true)
WritingRegenerate ==
    /\ page = "writing" /\ Len(activeWords) >= 4 /\ groqApiKey # ""
    /\ ~(writingLoading /\ writingQuestions = <<>>)
    /\ writingError \/ ~writingLoading
    /\ \E shuffled \in Shuffles(activeWords) : WritingGenerate(shuffled, runs)
    /\ UNCHANGED <<vocabularyVars, groqVars, quizSession, page, quizPageVars>>

\* generateWritingExercises returns for the chunk a writing run waits for;
\* a failure leaves the loop through the catch.
WritingChunkReturns(r, ok) ==
    /\ r \in runs /\ r.kind = "writing"
    /\ LET chunk == Head(r.chunks)
           more == ok /\ Len(r.chunks) > 1
           generated == [i \in 1..Len(chunk) |-> Exercise(chunk[i])]
           uniqueGenerated ==
               SelectSeq(generated, LAMBDA q :
                   \A i \in 1..Len(r.all) :
                       ToLowerCase(r.all[i].word) # ToLowerCase(q.word))
           allExercises == r.all \o uniqueGenerated
           loading == IF ~more /\ r.attached THEN FALSE ELSE writingLoading
           error == IF ~ok /\ r.attached THEN TRUE ELSE writingError
           questions == IF ok THEN allExercises ELSE writingQuestions
       IN /\ totalSpend' = IF ok THEN TrackGroqUsage(Usage) ELSE totalSpend
          /\ writingQuestions' = questions
          /\ writingLoading' = loading
          /\ writingError' = error
          /\ runs' = (runs \ {r}) \cup
                IF ~more THEN {}
                ELSE {[r EXCEPT !.chunks = Tail(r.chunks),
                                !.all = allExercises]}
          /\ WritingRendered(page, loading, error, questions,
                             currentWritingIndex, writingShowResult)
    /\ UNCHANGED <<vocabularyVars, groqApiKey, groqModel, writingAnswers,
                   quizSession, page, quizPageVars, nextRun>>

\* ------------------------------------------------------- WritingPractice
WritingHandleSubmit(right) ==
    /\ WritingAsking
    /\ currentWritingIndex \notin DOMAIN writingAnswers
    /\ LET currentExercise == writingQuestions[currentWritingIndex + 1]
           userAnswer == IF right THEN currentExercise.word ELSE Distractor
           correct == ToLowerCase(userAnswer) = ToLowerCase(currentExercise.word)
       IN /\ writingAnswers' = Put(writingAnswers, currentWritingIndex,
                                   [answer |-> userAnswer, correct |-> correct])
          /\ RecordOutcome(currentExercise.word, correct)
    /\ UNCHANGED <<rawWords, activeWords, supabaseUrl, supabaseKey, nextId,
                   remote, syncVars, groqVars, quizSession, writingQuestions,
                   currentWritingIndex, pageVars>>

\* the Next Question button and the ArrowRight key
WritingHandleNext ==
    /\ WritingShown
    /\ currentWritingIndex < Len(writingQuestions) - 1
    /\ currentWritingIndex' = currentWritingIndex + 1
    /\ UNCHANGED <<vocabularyVars, groqVars, quizSession, writingQuestions,
                   writingAnswers, pageVars>>

\* the Previous button and the ArrowLeft key
WritingHandlePrev ==
    /\ WritingShown
    /\ currentWritingIndex > 0
    /\ currentWritingIndex' = currentWritingIndex - 1
    /\ UNCHANGED <<vocabularyVars, groqVars, quizSession, writingQuestions,
                   writingAnswers, pageVars>>

WritingHandleFinish ==
    /\ WritingAsking
    /\ currentWritingIndex >= Len(writingQuestions) - 1
    /\ writingShowResult' = TRUE
    /\ UNCHANGED <<vocabularyVars, groqVars, quizSession, writingSession, page,
                   quizPageVars, writingLoading, writingError, runs, nextRun>>

\* Try Again on the result screen: resetWritingProgress
WritingHandleRestart ==
    /\ WritingShown /\ writingQuestions # <<>> /\ writingShowResult
    /\ writingAnswers' = <<>>
    /\ currentWritingIndex' = 0
    /\ writingShowResult' = FALSE
    /\ UNCHANGED <<vocabularyVars, groqVars, quizSession, writingQuestions,
                   page, quizPageVars, writingLoading, writingError, runs,
                   nextRun>>

\* ------------------------------------------------- the practice sessions
\* operations the user starts during one behaviour of the sessions
SessionOp(A) == ops < MaxSessionOps /\ ops' = ops + 1 /\ UNCHANGED last /\ A

Repeat(word, n) == [i \in 1..n |-> word]

\* the lists typed into the editor before practising: too short for a
\* session, one chunk, and two chunks
PracticeLists ==
    {<<WordLowerA>>, Repeat(WordLowerA, 4),
     Repeat(WordLowerA, 5) \o <<WordConstructor>>}

NextQuiz ==
    \/ \E words \in PracticeLists :
          page = "home" /\ SessionOp(SetActiveWords(words))
    \/ SessionOp(NavigateHome)
    \/ SessionOp(NavigateQuiz)
    \/ SessionOp(QuizRegenerate)
    \/ \E type \in QuizTypes : SessionOp(QuizTypeChange(type))
    \/ \E right \in BOOLEAN : SessionOp(QuizHandleSubmit(right))
    \/ SessionOp(QuizHandleNext)
    \/ SessionOp(QuizHandlePrev)
    \/ SessionOp(QuizHandleRestart)
    \/ \E r \in runs, ok \in BOOLEAN : Step(QuizChunkReturns(r, ok))
    \/ \E t \in timers : Step(QuizTimeout(t))

\* no remote credentials are saved
InitSession == Init /\ supabaseUrl = "" /\ supabaseKey = ""

\* The quiz session, with no remote credentials saved.
SpecQuiz == InitSession /\ [][NextQuiz]_vars

NextWriting ==
    \/ \E words \in PracticeLists :
          page = "home" /\ SessionOp(SetActiveWords(words))
    \/ SessionOp(NavigateHome)
    \/ SessionOp(NavigateWriting)
    \/ SessionOp(WritingRegenerate)
    \/ \E right \in BOOLEAN : SessionOp(WritingHandleSubmit(right))
    \/ SessionOp(WritingHandleNext)
    \/ SessionOp(WritingHandlePrev)
    \/ SessionOp(WritingHandleFinish)
    \/ SessionOp(WritingHandleRestart)
    \/ \E r \in runs, ok \in BOOLEAN : Step(WritingChunkReturns(r, ok))

\* The writing session, with no remote credentials saved.
SpecWriting == InitSession /\ [][NextWriting]_vars

\* ---------------------------------------------- a quiz on a saved word
\* The word is saved, put on the Active Working Set and asked about in a
\* quiz of any type.
NextAnswers ==
    \/ SessionOp(AddVocabDetails(<<Item(nextId + 1, WordLowerA, FirstContent, NoProgress)>>))
    \/ page = "home" /\ SessionOp(SetActiveWords(Repeat(WordLowerA, 4)))
    \/ SessionOp(NavigateQuiz)
    \/ SessionOp(QuizRegenerate)
    \/ \E type \in QuizTypes : SessionOp(QuizTypeChange(type))
    \/ \E right \in BOOLEAN : SessionOp(QuizHandleSubmit(right))
    \/ \E r \in runs, ok \in BOOLEAN : Step(QuizChunkReturns(r, ok))
    \/ \E t \in timers : Step(QuizTimeout(t))

\* The quiz on a word that has a record, with no remote credentials saved.
SpecAnswers == InitSession /\ [][NextAnswers]_vars

\* Every request in flight is answered or fails, and every timeout fires:
\* fetch settles and setTimeout calls its callback; nothing is assumed about
\* what the user does.
SpecAnswersFair ==
    /\ SpecAnswers
    /\ WF_vars(\E r \in runs, ok \in BOOLEAN : Step(QuizChunkReturns(r, ok)))
    /\ WF_vars(\E t \in timers : Step(QuizTimeout(t)))

\* ------------------------------------------------------------ Groq usage
SetGroqModel(model) ==
    /\ groqModel' = model
    /\ UNCHANGED <<vocabularyVars, groqApiKey, totalSpend, quizSession,
                   writingSession, pageVars>>

\* trackGroqUsage(usage), as the pages call it after a completion
TrackUsage(usage) ==
    /\ totalSpend' = TrackGroqUsage(usage)
    /\ UNCHANGED <<vocabularyVars, groqApiKey, groqModel, quizSession,
                   writingSession, pageVars>>

NextUsage ==
    \/ \E model \in GroqModels : SessionOp(SetGroqModel(model))
    \/ \E usage \in Usages : SessionOp(TrackUsage(usage))

\* a Groq key is saved, and no remote credentials
InitUsage == InitSession /\ groqApiKey # ""

\* The usage total under the completions of one behaviour.
SpecUsage == InitUsage /\ [][NextUsage]_vars

\* ------------------------------------------------- one word, practised long
\* The word is saved once more, or one more answer for it is recorded.
NextPractice ==
    \/ /\ nextId < MaxSaves /\ UNCHANGED <<ops, last>>
       /\ AddVocabDetails(<<Item(nextId + 1, WordLowerA, FirstContent, NoProgress)>>)
    \/ \E isCorrect \in BOOLEAN :
          /\ ops < MaxAttempts /\ ops' = ops + 1 /\ UNCHANGED last
          /\ UpdateWordProgress(WordUpperA, isCorrect)

\* no remote credentials and no Groq key are saved
InitPractice == InitSession /\ groqApiKey = ""

\* One word practised up to MaxAttempts times, with no remote credentials.
SpecPractice == InitPractice /\ [][NextPractice]_vars

\* ------------------------------------------------- the session operations
\* setQuizQuestions / setWritingQuestions: the list is replaced verbatim.
SetQuizQuestions(questions) ==
    /\ quizQuestions' = questions
    /\ UNCHANGED <<vocabularyVars, groqVars, quizAnswers, currentQuizIndex,
                   writingSession, pageVars>>

SetWritingQuestions(questions) ==
    /\ writingQuestions' = questions
    /\ UNCHANGED <<vocabularyVars, groqVars, quizSession, writingAnswers,
                   currentWritingIndex, pageVars>>

\* setQuizAnswer / setWritingAnswer: {answer, correct} under the position
SetQuizAnswer(index, answer, correct) ==
    /\ quizAnswers' = Put(quizAnswers, index, [answer |-> answer, correct |-> correct])
    /\ UNCHANGED <<vocabularyVars, groqVars, quizQuestions, currentQuizIndex,
                   writingSession, pageVars>>

SetWritingAnswer(index, answer, correct) ==
    /\ writingAnswers' = Put(writingAnswers, index, [answer |-> answer, correct |-> correct])
    /\ UNCHANGED <<vocabularyVars, groqVars, quizSession, writingQuestions,
                   currentWritingIndex, pageVars>>

SetCurrentQuizIndex(index) ==
    /\ currentQuizIndex' = index
    /\ UNCHANGED <<vocabularyVars, groqVars, quizQuestions, quizAnswers,
                   writingSession, pageVars>>

SetCurrentWritingIndex(index) ==
    /\ currentWritingIndex' = index
    /\ UNCHANGED <<vocabularyVars, groqVars, quizSession, writingQuestions,
                   writingAnswers, pageVars>>

\* a reset that clears the question list and nothing else
ResetQuizQuestionsOnly ==
    /\ quizQuestions' = <<>>
    /\ UNCHANGED <<vocabularyVars, groqVars, quizAnswers, currentQuizIndex,
                   writingSession, pageVars>>

\* resetQuiz: set({quizQuestions: [], quizAnswers: {}, currentQuizIndex: 0})
ResetQuiz ==
    /\ quizQuestions' = <<>>
    /\ quizAnswers' = <<>>
    /\ currentQuizIndex' = 0
    /\ UNCHANGED <<vocabularyVars, groqVars, writingSession, pageVars>>

\* resetWriting
ResetWriting ==
    /\ writingQuestions' = <<>>
    /\ writingAnswers' = <<>>
    /\ currentWritingIndex' = 0
    /\ UNCHANGED <<vocabularyVars, groqVars, quizSession, pageVars>>

\* a reset of the progress that drops the questions as well
ResetQuizProgressAndQuestions ==
    /\ quizQuestions' = <<>>
    /\ quizAnswers' = <<>>
    /\ currentQuizIndex' = 0
    /\ UNCHANGED <<vocabularyVars, groqVars, writingSession, pageVars>>

\* resetQuizProgress / resetWritingProgress: the questions stay
ResetQuizProgress ==
    /\ quizAnswers' = <<>>
    /\ currentQuizIndex' = 0
    /\ UNCHANGED <<vocabularyVars, groqVars, quizQuestions, writingSession,
                   pageVars>>

ResetWritingProgress ==
    /\ writingAnswers' = <<>>
    /\ currentWritingIndex' = 0
    /\ UNCHANGED <<vocabularyVars, groqVars, quizSession, writingQuestions,
                   pageVars>>

\* an operation on the sessions, recorded in `last`
StoreOp(A, did) == ops < MaxSessionOps /\ ops' = ops + 1 /\ last' = did /\ A

\* what `last` records of a reset: whether the session held questions
Reset(op, questions) ==
    [NoOperation EXCEPT !.op = op, !.held = questions # <<>>]

\* the question lists and the answers the pages store
QuestionLists ==
    {<<>>, <<Question(WordLowerA, "cloze")>>,
     <<Question(WordLowerA, "cloze"), Question(WordB, "cloze")>>}

ExerciseLists == {<<>>, <<Exercise(WordLowerA), Exercise(WordB)>>}

NextSessions ==
    \/ \E questions \in QuestionLists :
          StoreOp(SetQuizQuestions(questions), Operation("setQuizQuestions"))
    \/ \E questions \in ExerciseLists :
          StoreOp(SetWritingQuestions(questions), Operation("setWritingQuestions"))
    \/ \E index \in 0..1, correct \in BOOLEAN :
          StoreOp(SetQuizAnswer(index, IF correct THEN WordLowerA ELSE Distractor, correct),
                  Operation("setQuizAnswer"))
    \/ \E correct \in BOOLEAN :
          StoreOp(SetWritingAnswer(0, IF correct THEN WordLowerA ELSE Distractor, correct),
                  Operation("setWritingAnswer"))
    \/ \E index \in 0..1 :
          StoreOp(SetCurrentQuizIndex(index), Operation("setCurrentQuizIndex"))
    \/ \E index \in 0..1 :
          StoreOp(SetCurrentWritingIndex(index), Operation("setCurrentWritingIndex"))
    \/ StoreOp(ResetQuiz, Reset("resetQuiz", quizQuestions))
    \/ StoreOp(ResetWriting, Reset("resetWriting", writingQuestions))
    \/ StoreOp(ResetQuizProgress, Operation("resetQuizProgress"))
    \/ StoreOp(ResetWritingProgress, Operation("resetWritingProgress"))
    \/ StoreOp(AddVocabDetails(<<Item(nextId + 1, WordLowerA, FirstContent, NoProgress)>>),
               Operation("addVocabDetails"))

\* The session operations of the store, called one after the other, with no
\* remote credentials saved.
SpecSessions == InitLocal /\ [][NextSessions]_vars

\* ------------------------------------------------------------------- Home
\* the characters of the definitions that occur
Chars(text) ==
    CASE text = "d1" -> <<100, 49>>
      [] text = "d2" -> <<100, 50>>
      [] text = "Definition not generated yet." ->
            <<68, 101, 102, 105, 110, 105, 116, 105, 111, 110, 32, 110, 111,
              116, 32, 103, 101, 110, 101, 114, 97, 116, 101, 100, 32, 121,
              101, 116, 46>>

\* An id as Home compares it: the id of a stored record, or "temp-" and a
\* lowercased word.
StoredId(id) == [temp |-> FALSE, of |-> <<id>>]

TempId(word) == [temp |-> TRUE, of |-> ToLowerCase(word)]

\* the fallback for a word without a record
TempItem(word) ==
    [id |-> TempId(word), word |-> word,
     definition |-> "Definition not generated yet.", example |-> "...",
     ipa |-> "undefined", mastery |-> 0, attempts |-> 0, correct |-> 0,
     lastPracticed |-> 0]

\* rawWords.map(word => vocabDetails[word.toLowerCase()] or the fallback)
DisplayItem(details, word) ==
    IF Truthy(details, ToLowerCase(word))
    THEN [Get(details, ToLowerCase(word)) EXCEPT !.id = StoredId(@)]
    ELSE TempItem(word)

\* items.filter(item => !seenIds.has(item.id), adding the id)
RECURSIVE DeduplicatedById(_, _)
DeduplicatedById(items, seenIds) ==
    IF items = <<>> THEN <<>>
    ELSE IF Head(items).id \in seenIds
         THEN DeduplicatedById(Tail(items), seenIds)
         ELSE <<Head(items)>>
              \o DeduplicatedById(Tail(items), seenIds \cup {Head(items).id})

\* String.prototype.includes
Includes(text, query) ==
    \E i \in 1..(Len(text) - Len(query) + 1) :
        SubSeq(text, i, i + Len(query) - 1) = query

\* the search filter reads item.word.toLowerCase() of an item whose word is
\* undefined: a TypeError during render
FilterThrows(items, searchQuery) ==
    searchQuery # <<>> /\ \E i \in 1..Len(items) : items[i].word = NoWord

\* items.filter(item => word or definition includes the lowercased query)
Filtered(items, searchQuery) ==
    IF searchQuery = <<>> THEN items
    ELSE SelectSeq(items, LAMBDA item :
             \/ Includes(ToLowerCase(item.word), ToLowerCase(searchQuery))
             \/ Includes(ToLowerCase(Chars(item.definition)),
                         ToLowerCase(searchQuery)))

\* rawWords.indexOf(word): the first position, from 0, or -1
IndexOf(words, word) ==
    IF word \in Range(words)
    THEN (CHOOSE i \in 1..Len(words) :
             words[i] = word /\ \A j \in 1..(i - 1) : words[j] # word) - 1
    ELSE -1

\* the first position at which two strings differ, or 0
FirstDifference(a, b) ==
    LET n == IF Len(a) < Len(b) THEN Len(a) ELSE Len(b)
        differ == {i \in 1..n : a[i] # b[i]}
    IN IF differ = {} THEN 0
       ELSE CHOOSE i \in differ : \A j \in differ : i <= j

\* the order of two strings by their code units, as -1, 0 or 1
Lexical(a, b) ==
    LET i == FirstDifference(a, b)
    IN IF i = 0
       THEN IF Len(a) < Len(b) THEN -1 ELSE IF Len(a) > Len(b) THEN 1 ELSE 0
       ELSE IF a[i] < b[i] THEN -1 ELSE 1

\* a.localeCompare(b) on ASCII letters: by the letters without regard to
\* case, and between strings that differ in case only the lower case first
LocaleCompare(a, b) ==
    IF ToLowerCase(a) # ToLowerCase(b)
    THEN Lexical(ToLowerCase(a), ToLowerCase(b))
    ELSE -Lexical(a, b)

SortModes == {"newest", "oldest", "az", "za"}

\* a comparator that puts the lower Ledger index first in every mode
CompareOldest(sortBy, a, b, words) ==
    LET indexA == IndexOf(words, a.word)
        indexB == IndexOf(words, b.word)
    IN IF indexA # -1 /\ indexB # -1 THEN indexA - indexB
       ELSE IF indexA # -1 THEN -1
       ELSE IF indexB # -1 THEN 1
       ELSE 0

\* a comparator that puts the items without a Ledger index first
CompareOrphansFirst(sortBy, a, b, words) ==
    LET indexA == IndexOf(words, a.word)
        indexB == IndexOf(words, b.word)
    IN CASE sortBy \in {"newest", "oldest"} ->
              IF indexA # -1 /\ indexB # -1
              THEN IF sortBy = "newest" THEN indexB - indexA ELSE indexA - indexB
              ELSE IF indexA # -1 THEN 1
              ELSE IF indexB # -1 THEN -1
              ELSE 0
         [] sortBy = "az" -> LocaleCompare(a.word, b.word)
         [] sortBy = "za" -> LocaleCompare(b.word, a.word)

\* the comparator of items.sort for a sort mode
Compare(sortBy, a, b, words) ==
    LET indexA == IndexOf(words, a.word)
        indexB == IndexOf(words, b.word)
    IN CASE sortBy = "newest" ->
              IF indexA # -1 /\ indexB # -1 THEN indexB - indexA
              ELSE IF indexA # -1 THEN -1
              ELSE IF indexB # -1 THEN 1
              ELSE 0
         [] sortBy = "oldest" ->
              IF indexA # -1 /\ indexB # -1 THEN indexA - indexB
              ELSE IF indexA # -1 THEN -1
              ELSE IF indexB # -1 THEN 1
              ELSE 0
         [] sortBy = "az" -> LocaleCompare(a.word, b.word)
         [] sortBy = "za" -> LocaleCompare(b.word, a.word)

\* Array.prototype.sort is stable: each item goes behind the items already
\* placed that do not compare greater than it.
RECURSIVE Sorted(_, _, _, _)
Sorted(placed, items, sortBy, words) ==
    IF items = <<>> THEN placed
    ELSE LET item == Head(items)
             behind == {i \in 1..Len(placed) :
                          Compare(sortBy, item, placed[i], words) < 0}
             at == IF behind = {} THEN Len(placed) + 1
                   ELSE CHOOSE i \in behind : \A j \in behind : i <= j
         IN Sorted(SubSeq(placed, 1, at - 1) \o <<item>>
                   \o SubSeq(placed, at, Len(placed)),
                   Tail(items), sortBy, words)

\* Home.sortedAndFilteredItems
SortedAndFilteredItems(words, details, searchQuery, sortBy) ==
    LET items == [i \in 1..Len(words) |-> DisplayItem(details, words[i])]
    IN Sorted(<<>>, Filtered(DeduplicatedById(items, {}), searchQuery),
              sortBy, words)

\* ------------------------------------------------------------- StatsPage
\* getDetailedList: rawWords.map(word => vocabDetails[...]).filter(Boolean)
GetDetailedList ==
    LET found == SelectSeq(rawWords, LAMBDA word :
                     Truthy(vocabDetails, ToLowerCase(word)))
    IN [i \in 1..Len(found) |-> Get(vocabDetails, ToLowerCase(found[i]))]

\* words.filter(w => (w.mastery || 0) >= 80).length
masteredWords ==
    Len(SelectSeq(GetDetailedList, LAMBDA w : OrZero(w.mastery) >= 80))

\* words.filter(w => (w.mastery || 0) > 0 && (w.mastery || 0) < 80).length
learningWords ==
    Len(SelectSeq(GetDetailedList,
                  LAMBDA w : OrZero(w.mastery) > 0 /\ OrZero(w.mastery) < 80))

\* words.filter(w => !w.attempts).length
newWords ==
    Len(SelectSeq(GetDetailedList, LAMBDA w : OrZero(w.attempts) = 0))

\* --------------------------------------------------- the store under Home
\* the Ledgers Home.handleSave can leave: lists without duplicates
HomeLedgers ==
    {s \in SeqsUpTo({WordLowerA, WordUpperA, WordB, WordConstructor}, 3) :
        NoDuplicates(s)}

\* the delete button of an entry of the list: removeWord(item.word).  An
\* entry without a word (the inherited member) makes removeWord throw.
HomeDelete(item) ==
    /\ item.word # NoWord
    /\ \E i \in 1..Len(SortedAndFilteredItems(rawWords, vocabDetails, <<>>, "newest")) :
          SortedAndFilteredItems(rawWords, vocabDetails, <<>>, "newest")[i] = item
    /\ RemoveWord(item.word)

\* the entries Home can show
HomeItems == {DisplayItem(vocabDetails, rawWords[i]) : i \in 1..Len(rawWords)}

NextHome ==
    \/ \E item \in HomeItems : LocalOp(HomeDelete(item), Removal(item.word))
    \/ \E words \in HomeLedgers :
          LocalOp(SetRawWords(words), Operation("setRawWords"))
    \/ \E word \in {WordLowerA, WordB} :
          LocalOp(AddVocabDetails(<<Item(nextId + 1, word, FirstContent, NoProgress)>>),
                  Operation("addVocabDetails"))
    \/ \E isCorrect \in BOOLEAN :
          LocalOp(UpdateWordProgress(WordLowerA, isCorrect),
                  Operation("updateWordProgress"))

\* The Ledger and the record map as Home and StatsPage show them, with no
\* remote credentials saved.
SpecHome == InitLocal /\ [][NextHome]_vars

\* ------------------------------------------------ Home: generated details
\* words typed and saved three at a time: "b", "c", "d" and "e", "f", "g"
SaveLists == {<<<<98>>, <<99>>, <<100>>>>, <<<<101>>, <<102>>, <<103>>>>}

\* uniqueWords.filter(w => !vocabDetails[w.toLowerCase()])
WordsToProcess(uniqueWords) ==
    SelectSeq(uniqueWords, LAMBDA w : ~Truthy(vocabDetails, ToLowerCase(w)))

\* Home.handleSave up to its first request: the Ledger is saved and, with a
\* Groq key and words without a record, generateVocabDetails is called for
\* the first chunk of them.
HomeHandleSave ==
    LET uniqueWords == Distinct(rawWords \o activeWords)
        wordsToProcess == WordsToProcess(uniqueWords)
    IN IF wordsToProcess # <<>> /\ groqApiKey # ""
       THEN /\ rawWords' = uniqueWords
            /\ runs' = runs \cup
                  {Run(nextRun + 1, "details", "", Chunks(wordsToProcess))}
            /\ nextRun' = nextRun + 1
            /\ UNCHANGED <<activeWords, vocabDetails, supabaseUrl, supabaseKey,
                           now, nextId, remote, calls, syncVars, hist, groqVars,
                           quizSession, writingSession, page, quizPageVars,
                           writingPageVars>>
       ELSE HandleSave

\* the usage is charged for every call, whether or not it returned
ChargedAlways(ok) == TRUE

\* trackGroqUsage(usage) is reached when the call returned
Charged(ok) == ok

\* generateVocabDetails returns for the chunk a run of handleSave waits
\* for; a failure is logged and the loop goes on with the next chunk.
HomeChunkReturns(r, ok) ==
    /\ r \in runs /\ r.kind = "details"
    /\ LET chunk == Head(r.chunks)
           withIds == [i \in 1..Len(chunk) |->
                          Item(nextId + i, chunk[i], FirstContent, NoProgress)]
       IN /\ totalSpend' = IF Charged(ok) THEN TrackGroqUsage(Usage)
                           ELSE totalSpend
          /\ IF ok THEN MergeVocabDetails(withIds)
             ELSE UNCHANGED vocabularyVars
          /\ runs' = (runs \ {r}) \cup
                IF Len(r.chunks) > 1
                THEN {[r EXCEPT !.chunks = Tail(r.chunks)]} ELSE {}
    /\ UNCHANGED <<groqApiKey, groqModel, quizSession, writingSession, page,
                   quizPageVars, writingPageVars, nextRun>>

GenerationOp(A) ==
    ops < MaxGenerationOps /\ ops' = ops + 1 /\ UNCHANGED last /\ A

NextGeneration ==
    \/ \E words \in {Repeat(WordLowerA, chunkSize + 1)} \cup SaveLists :
          page = "home" /\ GenerationOp(SetActiveWords(words))
    \/ page = "home" /\ GenerationOp(HomeHandleSave)
    \/ GenerationOp(NavigateHome)
    \/ GenerationOp(NavigateQuiz)
    \/ GenerationOp(NavigateWriting)
    \/ \E r \in runs, ok \in BOOLEAN : Step(QuizChunkReturns(r, ok))
    \/ \E r \in runs, ok \in BOOLEAN : Step(WritingChunkReturns(r, ok))
    \/ \E r \in runs, ok \in BOOLEAN : Step(HomeChunkReturns(r, ok))

\* Content generation on Home, QuizPage and WritingPage, with a Groq key
\* and no remote credentials saved.
SpecGeneration == InitUsage /\ [][NextGeneration]_vars

\* ------------------------------------------------- StatsPage: needsPractice
\* the number of words on the Ledger when the statistics are looked at
MaxWords == 6

\* practice outcomes recorded while the statistics are looked at
MaxStatsOps == 1

\* a filter on the mastery alone
BelowSixty(w) == OrZero(w.mastery) < 60

\* w => (w.attempts || 0) > 0 && (w.mastery || 0) < 60
Practised(w) == OrZero(w.attempts) > 0 /\ OrZero(w.mastery) < 60

\* sort((a, b) => (a.mastery || 0) - (b.mastery || 0)): a stable sort, each
\* item placed behind the items that are not above it
RECURSIVE SortedByMastery(_)
SortedByMastery(items) ==
    IF items = <<>> THEN <<>>
    ELSE LET rest == SortedByMastery(Front(items))
             x == Last(items)
             k == Cardinality({i \in 1..Len(rest) :
                                  OrZero(rest[i].mastery) <= OrZero(x.mastery)})
         IN SubSeq(rest, 1, k) \o <<x>> \o SubSeq(rest, k + 1, Len(rest))

\* slice(0, n)
Slice(items, n) == SubSeq(items, 1, IF Len(items) < n THEN Len(items) ELSE n)

\* StatsPage.needsPractice
needsPractice == Slice(SortedByMastery(SelectSeq(GetDetailedList, Practised)), 5)

\* the words of the Ledger: "b", "c", ...
StatsWords == [i \in 1..MaxWords |-> <<97 + i>>]

\* the progress a record may have reached: new, one wrong answer, one right
\* answer of two
StatsProgress ==
    {NoProgress,
     [mastery |-> 0, attempts |-> 1, correct |-> 0, lastPracticed |-> 1],
     [mastery |-> 50, attempts |-> 2, correct |-> 1, lastPracticed |-> 1]}

\* Every Ledger word has its record, saved under the ids 1, 2, ... and
\* practised or not; no credentials and no Groq key are saved.
InitStats ==
    /\ rawWords = StatsWords
    /\ activeWords = <<>>
    /\ \E progress \in [1..MaxWords -> StatsProgress] :
          vocabDetails = [key \in Range(StatsWords) |->
                             LET i == CHOOSE j \in 1..MaxWords : StatsWords[j] = key
                             IN Item(i, key, FirstContent, progress[i])]
    /\ supabaseUrl = "" /\ supabaseKey = ""
    /\ now = 1
    /\ nextId = MaxWords
    /\ remote = <<>>
    /\ calls = {}
    /\ syncPc = "idle" /\ syncData = <<>> /\ syncThrown = "none" /\ syncError = ""
    /\ hist = [key \in Range(StatsWords) |-> NoHist]
    /\ ops = 0
    /\ last = NoOperation
    /\ groqApiKey = ""
    /\ groqModel = "llama-3.1-8b-instant"
    /\ totalSpend = Zero
    /\ quizQuestions = <<>> /\ quizAnswers = <<>> /\ currentQuizIndex = 0
    /\ writingQuestions = <<>> /\ writingAnswers = <<>>
    /\ currentWritingIndex = 0
    /\ page = "home"
    /\ quizLoading = FALSE /\ quizType = "definition" /\ quizShowResult = FALSE
    /\ writingLoading = FALSE /\ writingError = FALSE
    /\ writingShowResult = FALSE
    /\ runs = {} /\ timers = {} /\ nextRun = 0

\* one more answer for one of the first two words is recorded
NextStats ==
    \E word \in {StatsWords[1], StatsWords[2]}, isCorrect \in BOOLEAN :
        /\ ops < MaxStatsOps /\ ops' = ops + 1 /\ UNCHANGED last
        /\ UpdateWordProgress(word, isCorrect)

\* The records StatsPage reads, with no remote credentials saved.
SpecStats == InitStats /\ [][NextStats]_vars

\* ============================================================== properties
\* round(100 * k / n) of the integers k and n > 0: the nearest integer
Nearest(k, n) == (200 * k + n) \div (2 * n)

\* C1: a record that started with attempts = correct = mastery = 0 and has
\* since been touched only by n recorded outcomes for its word, k of them
\* correct, has attempts = n, correct = k and mastery = round(100 * k / n),
\* or mastery 0 when n = 0.
C1_PracticeCounts ==
    \A key \in DOMAIN vocabDetails :
        hist[key].valid =>
            /\ vocabDetails[key].attempts = hist[key].n
            /\ vocabDetails[key].correct = hist[key].k
            /\ vocabDetails[key].mastery =
                  IF hist[key].n = 0 THEN 0
                  ELSE Nearest(hist[key].k, hist[key].n)

\* C2: in every reachable state every record of the record map has
\* mastery = round(100 * correct / attempts) when attempts > 0 and
\* mastery = 0 when attempts = 0.
C2_MasteryInvariant ==
    \A key \in DOMAIN vocabDetails :
        LET r == vocabDetails[key]
        IN r.mastery = IF r.attempts = 0 THEN 0
                       ELSE Nearest(r.correct, r.attempts)

\* C3: a merge onto a word that already has a record leaves the record's
\* attempts, correct, mastery and last-practiced as they were and overwrites
\* nothing but word, definition, example and ipa: the id stays as well.
C3_MergeOverwritesOnlyContent ==
    [][\A details \in IncomingBatches :
          AddVocabDetails(details) =>
              \A key \in DOMAIN vocabDetails :
                  /\ key \in DOMAIN vocabDetails'
                  /\ vocabDetails'[key].attempts = vocabDetails[key].attempts
                  /\ vocabDetails'[key].correct = vocabDetails[key].correct
                  /\ vocabDetails'[key].mastery = vocabDetails[key].mastery
                  /\ vocabDetails'[key].lastPracticed = vocabDetails[key].lastPracticed
                  /\ vocabDetails'[key].id = vocabDetails[key].id]_vars

\* the select of checkConnection reports that the table is missing
SchemaMissing(reply) ==
    /\ reply.kind = "error"
    /\ reply.code = "42P01" \/ reply.message = CouldNotFindTheTable

\* C4: when the connectivity check reports the schema missing,
\* syncWithSupabase throws 'table_missing', handleSync shows that message
\* and not a generic one, and neither the call nor its failure changes the
\* Ledger, the record map or the Active Working Set.
C4_TableMissing ==
    [][/\ SyncWithSupabase => UNCHANGED store
       /\ \A reply \in CheckReplies :
             SyncCheckReturns(reply) /\ SchemaMissing(reply) =>
                 /\ syncThrown' = "table_missing"
                 /\ syncError' = "table_missing"
                 /\ syncPc' = "idle"
                 /\ UNCHANGED store]_vars

\* a sync has failed for the missing table over a store that is not empty
C4_Witness ==
    /\ syncPc = "idle"
    /\ syncThrown = "table_missing"
    /\ syncError = "table_missing"
    /\ activeWords # <<>>
    /\ vocabDetails # <<>>

\* the records getVocabulary returned, in the order fetched
Fetched == [i \in 1..Len(syncData) |-> FromRow(syncData[i])]

\* the positions of Fetched at which a word occurs for the first time
FirstOccurrences ==
    {i \in 1..Len(Fetched) : \A j \in 1..(i - 1) : Fetched[j].word # Fetched[i].word}

C6_ActiveFiltered ==
    [][SyncApply =>
          activeWords' =
              SelectSeq(activeWords,
                        LAMBDA w : ToLowerCase(w) \in DOMAIN vocabDetails')]_vars

\* C7: in every reachable state the cursor of each session is a position of
\* its question list, and 0 when the list is empty.
C7_CursorValid ==
    /\ IF quizQuestions = <<>> THEN currentQuizIndex = 0
       ELSE currentQuizIndex \in 0..(Len(quizQuestions) - 1)
    /\ IF writingQuestions = <<>> THEN currentWritingIndex = 0
       ELSE currentWritingIndex \in 0..(Len(writingQuestions) - 1)

\* C8: in every reachable state every key of each session's answer map is a
\* position of that session's current question list.
C8_AnswersWithinBounds ==
    /\ DOMAIN quizAnswers \subseteq 0..(Len(quizQuestions) - 1)
    /\ DOMAIN writingAnswers \subseteq 0..(Len(writingQuestions) - 1)

\* C9: removeWord(w) for a word that is neither in the Ledger nor, in lower
\* case, a key of the record map leaves both unchanged; and after any
\* removeWord(w) the word is in neither, so that a second removeWord(w)
\* changes nothing.
C9_RemoveIdempotent ==
    [][\A word \in Words :
          RemoveWord(word) =>
              /\ word \notin Range(rawWords')
              /\ ToLowerCase(word) \notin DOMAIN vocabDetails'
              /\ (word \notin Range(rawWords)
                  /\ ToLowerCase(word) \notin DOMAIN vocabDetails)
                 => UNCHANGED <<rawWords, vocabDetails>>]_vars

\* a word that was in neither was removed from a store that holds others
C9_Witness ==
    /\ last.op = "removeWord"
    /\ ~last.inLedger
    /\ ~last.hadRecord
    /\ rawWords # <<>>
    /\ vocabDetails # <<>>

\* C10: removeWord(w) leaves the Ledger without the entries equal to w and
\* otherwise in its order, the record map without the key lowercase(w) and
\* otherwise as it was, and the Active Working Set, both sessions and the
\* usage total unchanged.
C10_RemoveFrame ==
    [][\A word \in Words :
          RemoveWord(word) =>
              /\ rawWords' = SelectSeq(rawWords, LAMBDA w : w # word)
              /\ DOMAIN vocabDetails' = DOMAIN vocabDetails \ {ToLowerCase(word)}
              /\ \A key \in DOMAIN vocabDetails' :
                    vocabDetails'[key] = vocabDetails[key]
              /\ UNCHANGED <<activeWords, quizSession, writingSession,
                             totalSpend>>]_vars

\* a word was removed that the Ledger held and that had a record, and the
\* Ledger still holds the same word in another case, the record map another
\* record and the Active Working Set a word
C10_Witness ==
    /\ last.op = "removeWord"
    /\ last.inLedger
    /\ last.hadRecord
    /\ \E w \in Range(rawWords) :
          w # last.word /\ ToLowerCase(w) = ToLowerCase(last.word)
    /\ vocabDetails # <<>>
    /\ activeWords # <<>>

\* C11: when the mirror call of addVocabDetails, removeWord or
\* updateWordProgress fails, the Ledger and the record map stay as the
\* operation left them and the operation's promise is fulfilled: no error
\* reaches its caller.
C11_MirrorFailureKept ==
    [][\A c \in calls :
          /\ UpsertHandled(c, FALSE) => UNCHANGED store
          /\ \/ AddWordSettles(c) /\ c.st = "err"
             \/ DeleteSettles(c, FALSE)
             \/ UpdateSettles(c, FALSE)
             => /\ UNCHANGED store
                /\ last'.failed
                /\ last'.promise = "fulfilled"]_vars

\* a mirror call has failed and its operation has returned: the record map
\* holds a record the remote table never received
C11_Witness ==
    /\ last.failed
    /\ last.promise = "fulfilled"
    /\ calls = {}
    /\ vocabDetails # <<>>
    /\ remote = <<>>

\* C12: after removeWord(w) with credentials saved, once every call in
\* flight has completed and none has failed, the remote table has no row
\* for w, also when an upsert or a progress update for w was in flight at
\* the time of the removal.
C12_RemovedRemotely ==
    (last.op = "removeWord" /\ calls = {} /\ ~last.failed)
        => \A id \in DOMAIN remote : remote[id].word # last.word

\* the search queries typed on Home: none, "a" and "D"
Queries == {<<>>, <<97>>, <<68>>}

\* C13: with an empty search query the Merged Display List has exactly one
\* entry for each Ledger word, whether or not the word has a record: as
\* many entries as the Ledger has words, and for each word its entry once.
C13_OneEntryPerWord ==
    \A sortBy \in SortModes :
        LET list == SortedAndFilteredItems(rawWords, vocabDetails, <<>>, sortBy)
        IN /\ Len(list) = Len(rawWords)
           /\ \A i \in 1..Len(rawWords) :
                 Cardinality({j \in 1..Len(list) :
                     list[j] = DisplayItem(vocabDetails, rawWords[i])}) = 1

\* the entries of a list that have a Ledger index
Indexed(list) == SelectSeq(list, LAMBDA item : item.word \in Range(rawWords))

Reverse(list) == [i \in 1..Len(list) |-> list[Len(list) + 1 - i]]

\* C14: for the same Ledger, record map and search query the entries with
\* a Ledger index appear in sort mode newest in exactly the reverse of
\* their order in sort mode oldest.
C14_NewestReversesOldest ==
    \A searchQuery \in Queries :
        LET items == [i \in 1..Len(rawWords) |->
                         DisplayItem(vocabDetails, rawWords[i])]
            newest == SortedAndFilteredItems(rawWords, vocabDetails,
                                             searchQuery, "newest")
            oldest == SortedAndFilteredItems(rawWords, vocabDetails,
                                             searchQuery, "oldest")
        IN ~FilterThrows(items, searchQuery)
              => Indexed(newest) = Reverse(Indexed(oldest))

\* three words are listed, two of them with a Ledger index and in different
\* orders in the two modes, the third without one
C14_Witness ==
    LET newest == SortedAndFilteredItems(rawWords, vocabDetails, <<>>, "newest")
        oldest == SortedAndFilteredItems(rawWords, vocabDetails, <<>>, "oldest")
    IN /\ Len(newest) = 3
       /\ Len(Indexed(newest)) = 2
       /\ newest # oldest
       /\ vocabDetails # <<>>

\* C15: in every reachable state the counts of mastered, learning and new
\* words of StatsPage add up to the length of the Detailed List, each of
\* its records falling into exactly one of the three.
C15_AggregatesPartition ==
    masteredWords + learningWords + newWords = Len(GetDetailedList)

\* C16: for a fixed model and from any running total, trackGroqUsage with
\* usage a and then with usage b leaves the same total as one call with
\* the prompt tokens and the completion tokens of a and b added up.
C16_UsageCumulative ==
    \A a, b \in Usages :
        TotalAfter(TotalAfter(totalSpend, groqModel, a), groqModel, b)
            = TotalAfter(totalSpend, groqModel, Together(a, b))

\* C17: a record keeps its id for as long as it stays in the record map:
\* no step, be it updateWordProgress or a later addVocabDetails for the
\* same word under a fresh id, changes the id of a record that is in the
\* map before and after it.
C17_IdStable ==
    [][\A key \in DOMAIN vocabDetails \cap DOMAIN vocabDetails' :
          vocabDetails'[key].id = vocabDetails[key].id]_vars

\* how a syncWithSupabase that is under way or has ended without a generic
\* failure is recorded
NotGeneric == {"none", "pending", "returned", "table_missing"}

\* C18: when the connectivity check fails for another reason than the
\* missing table, or getVocabulary fails, syncWithSupabase throws an error
\* other than 'table_missing', handleSync shows a message other than
\* 'table_missing', and the Ledger, the record map and the Active Working
\* Set stay as they were.
C18_GenericSyncFailure ==
    [][/\ \A reply \in CheckReplies :
             SyncCheckReturns(reply) /\ reply.kind # "ok" /\ ~SchemaMissing(reply) =>
                 /\ syncThrown' \notin NotGeneric
                 /\ syncError' \notin {"", "table_missing"}
                 /\ syncPc' = "idle"
                 /\ UNCHANGED store
       /\ SyncFetchFails =>
             /\ syncThrown' \notin NotGeneric
             /\ syncError' \notin {"", "table_missing"}
             /\ syncPc' = "idle"
             /\ UNCHANGED store]_vars

\* a sync has failed on a refused select over a store that is not empty
C18_Witness ==
    /\ syncPc = "idle"
    /\ syncThrown = "permission denied"
    /\ syncError = "permission denied"
    /\ activeWords # <<>>
    /\ vocabDetails # <<>>

\* C19: updateWordProgress for a word without a record under its
\* lowercased key changes nothing in the store and issues no remote
\* progress update.
C19_NoRecordNoOp ==
    [][\A word \in Words, isCorrect \in BOOLEAN :
          UpdateWordProgress(word, isCorrect)
          /\ ToLowerCase(word) \notin DOMAIN vocabDetails
          => UNCHANGED <<store, supabaseUrl, supabaseKey, groqVars,
                         quizSession, writingSession, calls>>]_vars

\* C20: addVocabDetails for a word without a record stores the incoming
\* item under the lowercased word with mastery, attempts, correct and
\* lastPracticed 0, whatever the item carries in them, and leaves the
\* Ledger and the Active Working Set as they were.  (Only a merge mints
\* ids, one for each item, and leaves the last item's word and definition
\* under its key: a step that does not is no merge of that batch.)
C20_NewRecordStartsAtZero ==
    [][nextId' # nextId =>
       \A details \in IncomingBatches :
          (/\ nextId' = nextId + Len(details)
           /\ ToLowerCase(details[Len(details)].word) \in DOMAIN vocabDetails'
           /\ vocabDetails'[ToLowerCase(details[Len(details)].word)].word
                 = details[Len(details)].word
           /\ vocabDetails'[ToLowerCase(details[Len(details)].word)].definition
                 = details[Len(details)].definition
           /\ AddVocabDetails(details)) =>
              /\ UNCHANGED <<rawWords, activeWords>>
              /\ \A i \in 1..Len(details) :
                    LET key == ToLowerCase(details[i].word)
                    IN (/\ key \notin DOMAIN vocabDetails
                        /\ \A j \in (i + 1)..Len(details) :
                              ToLowerCase(details[j].word) # key)
                       => vocabDetails'[key] =
                             [details[i] EXCEPT !.mastery = 0, !.attempts = 0,
                                                !.correct = 0,
                                                !.lastPracticed = 0]]_vars

\* an item that carried progress was merged for a word without a record,
\* and its record has none; the Ledger and the Active Working Set hold words
C20_Witness ==
    /\ last.op = "addVocabDetails"
    /\ ~last.hadRecord
    /\ last.carried
    /\ ToLowerCase(last.word) \in DOMAIN vocabDetails
    /\ vocabDetails[ToLowerCase(last.word)].word = last.word
    /\ vocabDetails[ToLowerCase(last.word)].attempts = 0
    /\ vocabDetails[ToLowerCase(last.word)].mastery = 0
    /\ rawWords # <<>>
    /\ activeWords # <<>>

\* C21: resetQuiz empties the quiz question list and the quiz answer map and
\* sets the quiz cursor to 0 in one step that leaves the writing session and
\* the vocabulary state as they were; resetWriting does the same to the
\* writing session and leaves the quiz session as it was.
C21_ResetClearsTogether ==
    [][/\ ResetQuiz =>
             /\ quizQuestions' = <<>> /\ quizAnswers' = <<>>
             /\ currentQuizIndex' = 0
             /\ UNCHANGED <<writingSession, vocabularyVars>>
       /\ ResetWriting =>
             /\ writingQuestions' = <<>> /\ writingAnswers' = <<>>
             /\ currentWritingIndex' = 0
             /\ UNCHANGED <<quizSession, vocabularyVars>>
       /\ last'.op = "resetQuiz" /\ ops' # ops =>
             /\ quizQuestions' = <<>> /\ quizAnswers' = <<>>
             /\ currentQuizIndex' = 0
             /\ UNCHANGED <<writingSession, vocabularyVars>>
       /\ last'.op = "resetWriting" /\ ops' # ops =>
             /\ writingQuestions' = <<>> /\ writingAnswers' = <<>>
             /\ currentWritingIndex' = 0
             /\ UNCHANGED <<quizSession, vocabularyVars>>]_vars

\* the quiz was reset while it held questions, and the writing session
\* still holds its questions, an answer and a cursor that is not 0
C21_Witness ==
    /\ last.op = "resetQuiz"
    /\ last.held
    /\ quizQuestions = <<>> /\ quizAnswers = <<>> /\ currentQuizIndex = 0
    /\ writingQuestions # <<>>
    /\ writingAnswers # <<>>
    /\ currentWritingIndex # 0

\* C22: in every reachable state of the store, under merges, practice
\* outcomes, removals and syncs with a remote table that starts empty and
\* is written by the store's own mirror calls only, every record has
\* 0 <= correct <= attempts and a whole mastery between 0 and 100.
C22_CountsInRange ==
    \A key \in DOMAIN vocabDetails :
        LET r == vocabDetails[key]
        IN /\ 0 <= r.correct
           /\ r.correct <= r.attempts
           /\ r.mastery \in 0..100

\* a sync has replaced the record map with a practised record it fetched
C22_Witness ==
    /\ syncPc = "idle"
    /\ syncThrown = "returned"
    /\ \E key \in DOMAIN vocabDetails :
          /\ vocabDetails[key].attempts > 0
          /\ vocabDetails[key].correct > 0
          /\ vocabDetails[key] \in {FromRow(remote[id]) : id \in DOMAIN remote}

\* C23: with credentials saved addVocabDetails sends an upsert for every
\* record of its batch, one after the other in the order of the batch, and
\* goes on to the next record also when the upsert of one has failed: when
\* it resumes after an upsert with records left, the upsert of the next
\* record is sent.
C23_EveryRecordUpserted ==
    [][\A c \in calls :
          AddWordSettles(c) /\ c.rest # <<>> =>
              \E d \in calls' :
                  /\ d.op = "upsert"
                  /\ d.item.word = Head(c.rest)
                  /\ d.rest = Tail(c.rest)]_vars

\* C24: each updateWordProgress on a record sends its own progress update
\* at once, whatever is still in flight, and the updates complete in any
\* order; an update that completes writes its attempts, correct, mastery
\* and last_practiced to the row of its id, whatever the row held (the last
\* completion wins), and the table changes only when a call completes: a
\* row left stale by an earlier update that completed last stays stale
\* until another write.
C24_LastCompletionWins ==
    [][/\ \A c \in calls :
             UpdateSettles(c, TRUE) /\ c.item.id \in DOMAIN remote =>
                 /\ remote'[c.item.id].attempts = c.item.attempts
                 /\ remote'[c.item.id].correct = c.item.correct
                 /\ remote'[c.item.id].mastery = c.item.mastery
                 /\ remote'[c.item.id].last_practiced = c.item.lastPracticed
       /\ remote' # remote =>
             \E c \in calls :
                 \/ Step(UpsertHandled(c, TRUE))
                 \/ DeleteSettles(c, TRUE)
                 \/ UpdateSettles(c, TRUE)
       /\ \A isCorrect \in BOOLEAN :
             /\ UpdateWordProgress(WordLowerA, isCorrect)
             /\ WordLowerA \in DOMAIN vocabDetails
             => calls' = calls \cup {Call("update", vocabDetails'[WordLowerA],
                                          NoWord, <<>>)}]_vars

\* two outcomes were recorded for a record and every call has completed
\* without a failure: the record has attempts 2, its remote row attempts 1
C24_Witness ==
    /\ last.op = "updateWordProgress"
    /\ calls = {}
    /\ ~last.failed
    /\ \E key \in DOMAIN vocabDetails :
          /\ vocabDetails[key].attempts = 2
          /\ vocabDetails[key].id \in DOMAIN remote
          /\ remote[vocabDetails[key].id].attempts = 1
          /\ remote[vocabDetails[key].id].last_practiced
                < vocabDetails[key].lastPracticed

\* C25: a record that stays in the record map never loses attempts from
\* one state to the next, whatever the interleaving of updateWordProgress,
\* addVocabDetails and syncWithSupabase: an outcome recorded while the
\* fetch of a sync is in flight is still counted after the sync.
C25_AttemptsNeverDecrease ==
    [][\A key \in DOMAIN vocabDetails \cap DOMAIN vocabDetails' :
          vocabDetails'[key].attempts >= vocabDetails[key].attempts]_vars

\* C26: with credentials saved, no mirror call failing and each operation's
\* calls completed before the next operation starts, after any sequence of
\* addVocabDetails, updateWordProgress and removeWord the remote table
\* mirrors the record map: for every record a row with its id, word,
\* attempts, correct, mastery and last-practiced, and no other row.
C26_RemoteMirrorsLocal ==
    calls = {} =>
        /\ \A key \in DOMAIN vocabDetails :
              LET r == vocabDetails[key]
              IN /\ r.id \in DOMAIN remote
                 /\ remote[r.id].word = r.word
                 /\ remote[r.id].attempts = r.attempts
                 /\ remote[r.id].correct = r.correct
                 /\ remote[r.id].mastery = r.mastery
                 /\ remote[r.id].last_practiced = r.lastPracticed
        /\ \A id \in DOMAIN remote :
              \E key \in DOMAIN vocabDetails : vocabDetails[key].id = id

\* C27: once resetQuiz (resetWriting) has emptied the question list while a
\* run of generate is under way, that run never writes the questions it has
\* accumulated back: when the list is empty and a run holds questions it
\* had stored before, the return of its next chunk leaves the list empty.
C27_ResetNotUndone ==
    [][\A r \in runs :
          /\ r.all # <<>> /\ r.kind = "quiz" /\ quizQuestions = <<>>
              /\ Step(QuizChunkReturns(r, TRUE))
              => quizQuestions' = <<>>
          /\ r.all # <<>> /\ r.kind = "writing" /\ writingQuestions = <<>>
              /\ Step(WritingChunkReturns(r, TRUE))
              => writingQuestions' = <<>>]_vars

\* C28: every answer submitted in Quiz records a practice outcome for the
\* word its question asks about, whatever the quiz type: when that word has
\* a record, the record's attempts grow by one and its correct count by one
\* exactly when the answer was the correct one.  (A question is given in
\* the model by the word it asks about.)
C28_AnswerCountsForWord ==
    [][\A right \in BOOLEAN :
          LET key == ToLowerCase(quizQuestions[currentQuizIndex + 1].question)
          IN SessionOp(QuizHandleSubmit(right)) /\ key \in DOMAIN vocabDetails
             => /\ key \in DOMAIN vocabDetails'
                /\ vocabDetails'[key].attempts = vocabDetails[key].attempts + 1
                /\ vocabDetails'[key].correct =
                      vocabDetails[key].correct + (IF right THEN 1 ELSE 0)]_vars

\* C29: after the delete button of an entry of the Merged Display List has
\* called removeWord with the entry's word, the list shows no entry for it
\* any more, also when the record's word differs in case from the Ledger
\* string through which it was looked up: no Ledger string that led to the
\* deleted entry is left to lead to an entry.
C29_DeletedEntryGone ==
    [][\A item \in HomeItems :
          HomeDelete(item) =>
              \A i \in 1..Len(rawWords) :
                  DisplayItem(vocabDetails, rawWords[i]) = item =>
                      rawWords[i] \notin Range(rawWords')]_vars

\* the entries of the Merged Display List of the state for a query and a
\* sort mode, when the search filter does not throw
Listed(searchQuery, sortBy) ==
    IF FilterThrows([i \in 1..Len(rawWords) |->
                        DisplayItem(vocabDetails, rawWords[i])], searchQuery)
    THEN <<>>
    ELSE SortedAndFilteredItems(rawWords, vocabDetails, searchQuery, sortBy)

C31_FailedChunkNoMutation ==
    [][\A r \in runs :
          (\/ Step(QuizChunkReturns(r, FALSE))
           \/ Step(WritingChunkReturns(r, FALSE))
           \/ Step(HomeChunkReturns(r, FALSE)))
          => /\ UNCHANGED <<quizQuestions, writingQuestions, vocabDetails,
                            totalSpend, nextRun>>
             /\ r \notin runs'
             /\ runs' \ runs \subseteq {[r EXCEPT !.chunks = Tail(r.chunks)]}]_vars

\* the second chunk of a run of WritingPage.generate failed after the first
\* was stored, and a chunk of Home.handleSave failed with one chunk stored
C31_Witness ==
    /\ writingError /\ writingQuestions # <<>>
    /\ \E i \in 1..Len(rawWords) : ~Truthy(vocabDetails, ToLowerCase(rawWords[i]))
    /\ runs = {}

\* C32: on the Quiz page with at least 4 active words and a Groq key, once
\* the quiz type has been changed to t and no generation has been started
\* since the page's first one, a run of generate for type t is eventually
\* started (or the user has left the page or changed the type again).
C32_TypeChangeRegenerates ==
    \A t \in QuizTypes \ {"definition"} :
        (/\ page = "quiz" /\ quizType = t
         /\ Len(activeWords) >= 4 /\ groqApiKey # ""
         /\ nextRun = 1)
        ~> (\/ page # "quiz" \/ quizType # t
            \/ nextRun > 1
            \/ \E r \in runs : r.kind = "quiz" /\ r.type = t)

\* C33: in the step that starts addVocabDetails, removeWord or
\* updateWordProgress, no call in flight is completed, and every call the
\* step issues is issued on a store that already shows the mutation: an
\* upsert or a progress update carries the record now under its key, and a
\* delete is sent for a word whose record and Ledger string are gone.
C33_LocalBeforeRemote ==
    [][ops' = ops + 1 =>
          /\ calls \subseteq calls'
          /\ \A c \in calls' \ calls :
                LET key == ToLowerCase(IF c.op = "delete" THEN c.word
                                       ELSE c.item.word)
                IN /\ c.st = "sent"
                   /\ c.op \in {"upsert", "update"} =>
                         /\ key \in DOMAIN vocabDetails'
                         /\ vocabDetails'[key] = c.item
                   /\ c.op = "update" =>
                         /\ key \in DOMAIN vocabDetails
                         /\ c.item.attempts = vocabDetails[key].attempts + 1
                   /\ c.op = "delete" =>
                         /\ key \notin DOMAIN vocabDetails'
                         /\ c.word \notin Range(rawWords')]_vars

\* removeWord has removed a record locally while its delete call, and
\* nothing else, is in flight and the remote table still has the row
C33_Witness ==
    /\ last.op = "removeWord"
    /\ \E c \in calls :
          /\ calls = {c}
          /\ c.op = "delete" /\ c.st = "sent"
          /\ ToLowerCase(c.word) \notin DOMAIN vocabDetails
          /\ \E id \in DOMAIN remote : remote[id].word = c.word

\* a step that sends a request to the remote table: a mirror call, the
\* connectivity check or getVocabulary
CallIssued ==
    \/ \E c \in calls' \ calls : c.st = "sent"
    \/ syncPc' \in {"check", "fetch"} /\ syncPc' # syncPc

\* syncWithSupabase called without credentials: it returns, and nothing of
\* the store, the remote table or the calls in flight has changed
SyncReturnsUnchanged ==
    /\ syncPc' = "idle" /\ syncThrown' = "returned" /\ syncError' = ""
    /\ UNCHANGED <<store, practiceVars, supabaseUrl, supabaseKey, now, nextId,
                   remote, calls, hist>>

\* C34: while the remote URL or the remote key is empty, no step
\* sends a request to the remote table, and syncWithSupabase returns without
\* failure and without a change.
C34_NoCallWhileUnconfigured ==
    [][supabaseUrl = "" \/ supabaseKey = "" =>
          /\ ~CallIssued
          /\ Op(SyncWithSupabase) => SyncReturnsUnchanged]_vars

\* C35: every key of the record map is the lowercased word of the record
\* stored under it.
C35_KeyIsLowercasedWord ==
    \A key \in DOMAIN vocabDetails :
        key = ToLowerCase(vocabDetails[key].word)

\* C36: resetQuizProgress empties the quiz answers and sets the quiz cursor
\* to 0, leaves the quiz questions as they were and leaves the writing
\* session unchanged; resetWritingProgress does the same with the two
\* sessions exchanged.
C36_ResetProgressKeepsQuestions ==
    [][/\ last'.op = "resetQuizProgress" /\ ops' # ops =>
             /\ quizAnswers' = <<>> /\ currentQuizIndex' = 0
             /\ UNCHANGED <<quizQuestions, writingSession>>
       /\ last'.op = "resetWritingProgress" /\ ops' # ops =>
             /\ writingAnswers' = <<>> /\ currentWritingIndex' = 0
             /\ UNCHANGED <<writingQuestions, quizSession>>]_vars

\* the quiz progress was reset: its questions are still there, and the
\* writing session still holds its questions, an answer and a cursor that
\* is not 0
C36_Witness ==
    /\ last.op = "resetQuizProgress"
    /\ quizQuestions # <<>> /\ quizAnswers = <<>> /\ currentQuizIndex = 0
    /\ writingQuestions # <<>>
    /\ writingAnswers # <<>>
    /\ currentWritingIndex # 0

\* C37: getDetailedList holds, in Ledger order, the record under the
\* lowercased word for every Ledger word that has a record and nothing for
\* the other Ledger words; the word of each of its entries is in the Ledger
\* up to letter case, and it is no longer than the Ledger.
C37_DetailedListOfLedger ==
    LET withRecord == SelectSeq(rawWords, LAMBDA w :
                          ToLowerCase(w) \in DOMAIN vocabDetails)
    IN /\ Len(GetDetailedList) = Len(withRecord)
       /\ \A i \in 1..Len(withRecord) :
             GetDetailedList[i] = vocabDetails[ToLowerCase(withRecord[i])]
       /\ \A i \in 1..Len(GetDetailedList) :
             \E j \in 1..Len(rawWords) :
                ToLowerCase(GetDetailedList[i].word) = ToLowerCase(rawWords[j])
       /\ Len(GetDetailedList) <= Len(rawWords)

\* C38: needsPractice holds only records of the Detailed List with
\* attempts > 0 and mastery < 60, each at most as often as the Detailed List
\* has it, in order of non-decreasing mastery, and at most 5 of them; it
\* holds all of them when at most 5 qualify, and otherwise its i-th entry
\* has fewer than i qualifying records of lower mastery.
C38_NeedsPracticeLowestFive ==
    LET qualifying == SelectSeq(GetDetailedList, LAMBDA w :
                          w.attempts > 0 /\ w.mastery < 60)
        Count(items, x) == Cardinality({i \in 1..Len(items) : items[i] = x})
    IN /\ \A i \in 1..Len(needsPractice) :
             /\ Count(qualifying, needsPractice[i]) > 0
             /\ Count(needsPractice, needsPractice[i])
                   <= Count(qualifying, needsPractice[i])
             /\ Cardinality({j \in 1..Len(qualifying) :
                    qualifying[j].mastery < needsPractice[i].mastery}) < i
       /\ \A i \in 1..(Len(needsPractice) - 1) :
             needsPractice[i].mastery <= needsPractice[i + 1].mastery
       /\ Len(needsPractice) = IF Len(qualifying) < 5 THEN Len(qualifying) ELSE 5

\* six records qualify, with different masteries among them: five are kept
C38_Witness ==
    /\ Len(SelectSeq(GetDetailedList, Practised)) > 5
    /\ Len(needsPractice) = 5
    /\ needsPractice[1].mastery < needsPractice[5].mastery
    /\ ops > 0

\* C39: trackGroqUsage leaves as the running total the sum of the old total
\* and of prompt_tokens / 1000000 * input + completion_tokens / 1000000 *
\* output, at the prices of the selected model or at 0.05 and 0.08 when it
\* has none, all in the arithmetic of Numbers, and changes nothing else;
\* 1000000 and 1000000 tokens at 0.05 and 0.08 add 0.13 to a total of 0.
C39_UsageAddsCost ==
    [][\A usage \in Usages :
          TrackUsage(usage) =>
             LET input == CASE groqModel = "llama-3.1-70b-versatile" -> 59
                            [] OTHER -> 5
                 output == CASE groqModel = "llama-3.1-70b-versatile" -> 79
                             [] OTHER -> 8
                 inputCost == Multiply(Quotient(usage.prompt_tokens, 1000000),
                                       Quotient(input, 100))
                 outputCost == Multiply(Quotient(usage.completion_tokens, 1000000),
                                        Quotient(output, 100))
             IN /\ totalSpend' = Add(totalSpend, Add(inputCost, outputCost))
                /\ UNCHANGED <<vocabularyVars, groqApiKey, groqModel,
                               quizSession, writingSession, pageVars>>
                /\ /\ usage.prompt_tokens = 1000000
                   /\ usage.completion_tokens = 1000000
                   /\ input = 5 /\ totalSpend = Zero
                   => totalSpend' = Quotient(13, 100)]_vars

\* a model without a price row was selected and the usage of 1000000 and
\* 1000000 tokens was tracked: the total is 0.13
C39_Witness ==
    /\ groqModel = "llama-3.3-70b-versatile"
    /\ ops = 2
    /\ totalSpend = Quotient(13, 100)

====
